---- MODULE Spec2Model ----
(***************************************************************************)
(* Park-It rules engine (backend/services/rules_engine.py).                *)
(*                                                                         *)
(* The engine reduces a list of matched parking rules and a query time to  *)
(* one (status, reason, parking_type, expires_at) tuple.  Its time         *)
(* arithmetic is done on Python floats ("decimal hours"), so the model     *)
(* carries an exact emulation of IEEE-754 binary64 for the operations the  *)
(* code performs: int/int true division, +, -, * by 60, % 1 and int().     *)
(***************************************************************************)
EXTENDS Integers, Sequences, FiniteSets, TLC

(***************************************************************************)
(* Python float.  A non-negative double is held exactly as an integer      *)
(* count of units 2^-60, written in three limbs of 24 bits, least          *)
(* significant first: x = (x[1] + x[2]*2^24 + x[3]*2^48) / 2^60.           *)
(* Every double the engine forms from HH:MM values is a multiple of 2^-60  *)
(* and below 2^11, so the representation is exact.                         *)
(***************************************************************************)
MantissaBits == 53

Limb == 2^24

UnitsPerLimb3 == 2^12

RECURSIVE BitLen(_)
BitLen(n) == IF n = 0 THEN 0 ELSE 1 + BitLen(n \div 2)

FxBitLen(x) ==
    IF x[3] > 0 THEN 48 + BitLen(x[3])
    ELSE IF x[2] > 0 THEN 24 + BitLen(x[2])
    ELSE BitLen(x[1])

FxAdd(x, y) ==
    LET s1 == x[1] + y[1]
        s2 == x[2] + y[2] + (s1 \div Limb)
    IN  <<s1 % Limb, s2 % Limb, x[3] + y[3] + (s2 \div Limb)>>

\* x - y for x >= y
FxSub(x, y) ==
    LET d1 == x[1] - y[1]
        b1 == IF d1 < 0 THEN 1 ELSE 0
        d2 == x[2] - y[2] - b1
        b2 == IF d2 < 0 THEN 1 ELSE 0
    IN  <<d1 + b1 * Limb, d2 + b2 * Limb, x[3] - y[3] - b2>>

\* x * k for a small positive integer k (k * 2^24 stays below 2^31)
FxMul(x, k) ==
    LET p1 == x[1] * k
        p2 == x[2] * k + (p1 \div Limb)
    IN  <<p1 % Limb, p2 % Limb, x[3] * k + (p2 \div Limb)>>

FxLess(x, y) ==
    \/ x[3] < y[3]
    \/ x[3] = y[3] /\ x[2] < y[2]
    \/ x[3] = y[3] /\ x[2] = y[2] /\ x[1] < y[1]

FxLeq(x, y) == ~FxLess(y, x)

\* Round to nearest, ties to even, at 53 significant bits (binary64).
Round53(x) ==
    LET s == FxBitLen(x) - MantissaBits
    IN  IF s <= 0 THEN x
        ELSE LET p    == 2^s
                 r    == x[1] % p
                 half == p \div 2
                 base == <<x[1] - r, x[2], x[3]>>
                 odd  == (x[1] \div p) % 2 = 1
                 up   == r > half \/ (r = half /\ odd)
             IN  IF up THEN FxAdd(base, <<p, 0, 0>>) ELSE base

\* float(n) for a small non-negative int n
FloatOfInt(n) == <<0, 0, n * UnitsPerLimb3>>

\* n / d on ints (Python true division): the exact quotient, correctly
\* rounded.  A non-zero remainder is kept as a sticky low bit, which lies
\* below the rounding position for every quotient of at least 2^-6.
FloatDiv(n, d) ==
    LET t3 == n * UnitsPerLimb3
        q3 == t3 \div d
        t2 == (t3 % d) * Limb
        q2 == t2 \div d
        t1 == (t2 % d) * Limb
        q1 == t1 \div d
        sticky == IF t1 % d # 0 /\ q1 % 2 = 0 THEN 1 ELSE 0
    IN  Round53(<<q1 + sticky, q2, q3>>)

FloatAdd(x, y) == Round53(FxAdd(x, y))

FloatSub(x, y) == Round53(FxSub(x, y))

FloatMul(x, k) == Round53(FxMul(x, k))

\* x % 1 for x >= 0 (exact)
FloatMod1(x) == <<x[1], x[2], x[3] % UnitsPerLimb3>>

\* int(x) for x >= 0
FloatToInt(x) == x[3] \div UnitsPerLimb3


(***************************************************************************)
(* Python values.  None is the empty tuple and a present value v is <<v>>; *)
(* a dict is a record, and d.get(k, default) looks the key up in DOMAIN d. *)
(***************************************************************************)
None == <<>>

Some(v) == <<v>>

DictGet(d, k, default) == IF k \in DOMAIN d THEN d[k] ELSE default

\* bool(v) for an Optional[int]
Truthy(v) == v # None /\ v[1] # 0

(***************************************************************************)
(* Time strings of the catalogue.  "HH:MM" holds two integer parts; "text" *)
(* is a string whose parts are not integers; "null" is a JSON null.        *)
(***************************************************************************)
HHMM(h, m) == [kind |-> "HH:MM", h |-> h, m |-> m]

TextTime == [kind |-> "text", h |-> 0, m |-> 0]

NullTime == [kind |-> "null", h |-> 0, m |-> 0]

(***************************************************************************)
(* datetime.  The date is its ISO string (what strftime("%Y-%m-%d") gives);*)
(* the calendar below is the week of Monday 2025-05-26.                    *)
(***************************************************************************)
CalendarDates ==
    << "2025-05-26", "2025-05-27", "2025-05-28", "2025-05-29",
       "2025-05-30", "2025-05-31", "2025-06-01", "2025-06-02" >>

DateIndex(d) == CHOOSE i \in 1..Len(CalendarDates) : CalendarDates[i] = d

\* datetime.weekday(): 0 = Monday .. 6 = Sunday
Weekday(dt) == (DateIndex(dt.date) - 1) % 7

Datetime(d, h, m, s) == [date |-> d, hour |-> h, minute |-> m, second |-> s]

\* dt + timedelta(minutes=n)
AddMinutes(dt, n) ==
    LET total == dt.hour * 60 + dt.minute + n
    IN  Datetime(CalendarDates[DateIndex(dt.date) + (total \div 1440)],
                 (total % 1440) \div 60, total % 60, dt.second)

\* A function's outcome: the value it returns, or the exception it raises.
Ok(v) == [raised |-> "", val |-> v]

Raised(e) == [raised |-> e, val |-> None]

ParsedPart(t) == FloatAdd(FloatOfInt(t.h), FloatDiv(t.m, 60))

\* _parse_time: decimal hours; ValueError and IndexError give 0.0, the
\* AttributeError of None.split is not caught.
_parse_time(time_str) ==
    CASE time_str.kind = "HH:MM" -> Ok(ParsedPart(time_str))
      [] time_str.kind = "text"  -> Ok(FloatOfInt(0))
      [] time_str.kind = "null"  -> Raised("AttributeError")

\* _time_to_datetime: reference.replace(hour, minute, second=0); replace
\* raises ValueError for an hour outside 0..23.
_time_to_datetime(decimal_time, reference) ==
    LET hours   == FloatToInt(decimal_time)
        minutes == FloatToInt(FloatMul(FloatMod1(decimal_time), 60))
    IN  IF hours > 23 THEN Raised("ValueError")
        ELSE Ok(Datetime(reference.date, hours, minutes, 0))

\* current_decimal = current_hour + current_minute / 60
CurrentDecimal(now) == FloatAdd(FloatOfInt(now.hour), FloatDiv(now.minute, 60))

(***************************************************************************)
(* _determine_status.  A result is the returned tuple, or the exception.   *)
(***************************************************************************)
Return(status, reason, parking_type, expires_at) ==
    [raised |-> "", status |-> status, reason |-> reason,
     parking_type |-> parking_type, expires_at |-> expires_at]

Raise(e) ==
    [raised |-> e, status |-> "", reason |-> [msg |-> ""],
     parking_type |-> "", expires_at |-> None]

\* a loop that ended without returning
FellThrough == Return("", [msg |-> ""], "", None)

IsFellThrough(r) == r.raised = "" /\ r.status = ""

FreeParking == Return("green", [msg |-> "Free parking - no restrictions"], "free", None)

\* both kinds of prohibition in the list merged into one answer
ProhibitionLoop_merges_kinds(rs, i) ==
    LET kinds == {rs[j].type : j \in i..Len(rs)} \cap {"no_parking", "no_standing"}
    IN  IF kinds = {} THEN FellThrough
        ELSE IF Cardinality(kinds) = 2
        THEN Return("red", [msg |-> "No zone", kind |-> "no_parking+no_standing"],
                    "no_parking+no_standing", None)
        ELSE Return("red", [msg |-> "No zone", kind |-> CHOOSE k \in kinds : TRUE],
                    CHOOSE k \in kinds : TRUE, None)

RECURSIVE ProhibitionLoop(_, _)
ProhibitionLoop(rs, i) ==
    IF i > Len(rs) THEN FellThrough
    ELSE IF rs[i].type \in {"no_parking", "no_standing"}
         THEN Return("red", [msg |-> "No zone", kind |-> rs[i].type], rs[i].type, None)
         ELSE ProhibitionLoop(rs, i + 1)

\* minutes_until = int((start_time - current_decimal) * 60)
MinutesUntil(start_time, current_decimal) ==
    FloatToInt(FloatMul(FloatSub(start_time, current_decimal), 60))

SoonThreshold == 30

WiderThreshold == 60

\* the body of the street-cleaning loop for one rule; FellThrough = next rule
CleaningStep(rule, now, current_decimal) ==
    LET st == _parse_time(rule.startTime)
        en == _parse_time(rule.endTime)
    IN  IF st.raised # "" THEN Raise(st.raised)
        ELSE IF en.raised # "" THEN Raise(en.raised)
        ELSE IF FxLeq(st.val, current_decimal) /\ FxLess(current_decimal, en.val)
        THEN LET expires == _time_to_datetime(en.val, now)
             IN  IF expires.raised # "" THEN Raise(expires.raised)
                 ELSE Return("red",
                             [msg |-> "Street cleaning until", time |-> rule.endTime],
                             "street_cleaning", Some(expires.val))
        ELSE IF FxLess(current_decimal, st.val)
        THEN LET minutes_until == MinutesUntil(st.val, current_decimal)
                 expires       == _time_to_datetime(st.val, now)
             IN  IF expires.raised # "" THEN Raise(expires.raised)
                 ELSE IF minutes_until <= SoonThreshold
                 THEN Return("yellow",
                             [msg |-> "Street cleaning in min - move your car!",
                              minutes |-> minutes_until],
                             "street_cleaning", Some(expires.val))
                 ELSE IF minutes_until <= WiderThreshold
                 THEN Return("yellow",
                             [msg |-> "Street cleaning in min", minutes |-> minutes_until],
                             "street_cleaning", Some(expires.val))
                 ELSE FellThrough
        ELSE FellThrough

RECURSIVE CleaningLoop(_, _, _, _)
CleaningLoop(rs, now, current_decimal, i) ==
    IF i > Len(rs) THEN FellThrough
    ELSE IF rs[i].type # "street_cleaning"
         THEN CleaningLoop(rs, now, current_decimal, i + 1)
         ELSE LET r == CleaningStep(rs[i], now, current_decimal)
              IN  IF IsFellThrough(r)
                  THEN CleaningLoop(rs, now, current_decimal, i + 1)
                  ELSE r

DefaultMaxDuration == 120

DefaultRate == 350

RECURSIVE MeterLoop(_, _, _)
MeterLoop(rs, now, i) ==
    IF i > Len(rs) THEN FellThrough
    ELSE IF rs[i].type # "meter" THEN MeterLoop(rs, now, i + 1)
    ELSE LET max_duration == DictGet(rs[i], "maxDuration", Some(DefaultMaxDuration))
             expires == IF Truthy(max_duration)
                        THEN Some(AddMinutes(now, max_duration[1]))
                        ELSE None
             rate    == DictGet(rs[i], "rate", Some(DefaultRate))
         IN  \* f"{rate:.2f}" raises TypeError for None
             IF rate = None THEN Raise("TypeError")
             ELSE Return("yellow",
                         [msg |-> "Metered zone", rate |-> rate, max |-> max_duration],
                         "meter", expires)

\* the advisory answer classified by the rule that caused it
LaterStep_typed_by_rule(rule, now, current_decimal) ==
    LET st == _parse_time(rule.startTime)
    IN  IF st.raised # "" THEN Raise(st.raised)
        ELSE IF FxLess(current_decimal, st.val)
        THEN LET expires == _time_to_datetime(st.val, now)
             IN  IF expires.raised # "" THEN Raise(expires.raised)
                 ELSE Return("green",
                             [msg |-> "OK for now - cleaning at", time |-> rule.startTime],
                             rule.type, Some(expires.val))
        ELSE FellThrough

\* the advisory loop without its test that the start lies ahead
LaterStep_no_time_test(rule, now, current_decimal) ==
    LET st == _parse_time(rule.startTime)
    IN  IF st.raised # "" THEN Raise(st.raised)
        ELSE LET expires == _time_to_datetime(st.val, now)
             IN  IF expires.raised # "" THEN Raise(expires.raised)
                 ELSE Return("green",
                             [msg |-> "OK for now - cleaning at", time |-> rule.startTime],
                             "free", Some(expires.val))

LaterStep(rule, now, current_decimal) ==
    LET st == _parse_time(rule.startTime)
    IN  IF st.raised # "" THEN Raise(st.raised)
        ELSE IF FxLess(current_decimal, st.val)
        THEN LET expires == _time_to_datetime(st.val, now)
             IN  IF expires.raised # "" THEN Raise(expires.raised)
                 ELSE Return("green",
                             [msg |-> "OK for now - cleaning at", time |-> rule.startTime],
                             "free", Some(expires.val))
        ELSE FellThrough

RECURSIVE LaterLoop(_, _, _, _)
LaterLoop(rs, now, current_decimal, i) ==
    IF i > Len(rs) THEN FellThrough
    ELSE IF rs[i].type # "street_cleaning"
         THEN LaterLoop(rs, now, current_decimal, i + 1)
         ELSE LET r == LaterStep(rs[i], now, current_decimal)
              IN  IF IsFellThrough(r)
                  THEN LaterLoop(rs, now, current_decimal, i + 1)
                  ELSE r

\* the street-cleaning loop run ahead of the prohibition loop
_determine_status_cleaning_first(rs, now, current_decimal) ==
    IF rs = <<>> THEN FreeParking
    ELSE LET p == ProhibitionLoop(rs, 1)
             c == CleaningLoop(rs, now, current_decimal, 1)
             m == MeterLoop(rs, now, 1)
             l == LaterLoop(rs, now, current_decimal, 1)
         IN  IF ~IsFellThrough(c) THEN c
             ELSE IF ~IsFellThrough(p) THEN p
             ELSE IF ~IsFellThrough(m) THEN m
             ELSE IF ~IsFellThrough(l) THEN l
             ELSE FreeParking

_determine_status(rs, now, current_decimal) ==
    IF rs = <<>> THEN FreeParking
    ELSE LET p == ProhibitionLoop(rs, 1)
             c == CleaningLoop(rs, now, current_decimal, 1)
             m == MeterLoop(rs, now, 1)
             l == LaterLoop(rs, now, current_decimal, 1)
         IN  IF ~IsFellThrough(p) THEN p
             ELSE IF ~IsFellThrough(c) THEN c
             ELSE IF ~IsFellThrough(m) THEN m
             ELSE IF ~IsFellThrough(l) THEN l
             ELSE FreeParking


(***************************************************************************)
(* State.  The three catalogue globals, and the last call: the query time  *)
(* read from the clock, the matched-rule list handed to the evaluator and  *)
(* what the call returned (or raised).  DATA_DIR is the data directory the *)
(* catalogue is loaded from; calls holds the calls of get_parking_status   *)
(* in progress in the request handlers, each with its local variables.     *)
(***************************************************************************)
VARIABLES CLEANING_SCHEDULE, METER_ZONES, HOLIDAYS, rules, now, result, pc,
          DATA_DIR, calls, users, tokens, parking_sessions, requests

vars == <<CLEANING_SCHEDULE, METER_ZONES, HOLIDAYS, rules, now, result, pc,
          DATA_DIR, calls, users, tokens, parking_sessions, requests>>

\* the database tables users and parking_sessions, the tokens issued so far,
\* and the HTTP requests the worker processes are serving
layer == <<users, tokens, parking_sessions, requests>>

catalogue == <<CLEANING_SCHEDULE, METER_ZONES, HOLIDAYS>>

EmptyDict == <<>>

(***************************************************************************)
(* load_json_data.  A file of the data directory is absent, or holds text  *)
(* that is not JSON, or holds a JSON object.                               *)
(***************************************************************************)
MissingFile == [exists |-> FALSE, valid |-> FALSE, json |-> EmptyDict]

MalformedFile == [exists |-> TRUE, valid |-> FALSE, json |-> EmptyDict]

JsonFile(content) == [exists |-> TRUE, valid |-> TRUE, json |-> content]

DataDir(cleaning, meters, holidays) ==
    ("nyc_cleaning.json" :> cleaning) @@ ("meter_zones.json" :> meters)
        @@ ("holidays.json" :> holidays)

\* open() raises FileNotFoundError, which is caught; json.load raises
\* JSONDecodeError, which is not
load_json_data(filename) ==
    IF ~DATA_DIR[filename].exists THEN Ok(EmptyDict)
    ELSE IF ~DATA_DIR[filename].valid THEN Raised("JSONDecodeError")
    ELSE Ok(DATA_DIR[filename].json)

(***************************************************************************)
(* Bounded inputs of the evaluator.                                        *)
(***************************************************************************)
MaxRules == 2

LastHour == 9

QueryHours == 8 .. LastHour

QuerySeconds == {0, 30}

EvalDate == CalendarDates[1]

Instants ==
    { Datetime(EvalDate, h, m, s) : h \in QueryHours, m \in 0..59, s \in QuerySeconds }

CleaningRule(start, end) ==
    [type |-> "street_cleaning", startTime |-> start, endTime |-> end,
     maxDuration |-> None, rate |-> None]

MeterRule(max, rate) ==
    [type |-> "meter", startTime |-> HHMM(7, 0), endTime |-> HHMM(19, 0),
     maxDuration |-> max, rate |-> rate]

ProhibitionRule(kind) ==
    [type |-> kind, startTime |-> HHMM(0, 0), endTime |-> HHMM(0, 0),
     maxDuration |-> None, rate |-> None]

RulePool ==
    { CleaningRule(HHMM(8, 30), HHMM(10, 0)),
      CleaningRule(HHMM(9, 40), HHMM(10, 25)),
      CleaningRule(HHMM(7, 0), HHMM(8, 10)),
      CleaningRule(TextTime, HHMM(9, 0)),
      CleaningRule(HHMM(8, 30), TextTime),
      MeterRule(Some(120), Some(350)),
      MeterRule(None, Some(350)),
      ProhibitionRule("no_parking"),
      ProhibitionRule("no_standing") }

RuleLists == UNION { [1..n -> RulePool] : n \in 0..MaxRules }

NoResult == Return("", [msg |-> ""], "", None)

\* the request handlers that call the engine, and the local variables of a
\* call of get_parking_status; no call is in progress in an idle handler
Handlers == {1, 2}

IdleCall ==
    [pc |-> "idle", latitude |-> 0, longitude |-> 0, now |-> Datetime(EvalDate, 0, 0, 0),
     borough |-> "", is_holiday |-> FALSE, holiday_name |-> None, rules |-> <<>>,
     recommendations |-> <<>>, zone_code |-> None, st |-> NoResult, result |-> NoResult]

NoCalls == [h \in Handlers |-> IdleCall]

\* the worker processes of the API server and the request a worker serves:
\* the endpoint, the authenticated caller, the arguments, the row its query
\* loaded and, once it has answered, the status code and the body
Workers == {1, 2}

IdleRequest ==
    [pc |-> "idle", op |-> "", user |-> "", session_id |-> 0, latitude |-> 0,
     longitude |-> 0, method |-> "", durationMinutes |-> 0, loaded |-> None,
     token |-> None, code |-> 0, body |-> <<>>]

NoRequests == [w \in Workers |-> IdleRequest]

InitEval ==
    /\ CLEANING_SCHEDULE = EmptyDict
    /\ METER_ZONES = EmptyDict
    /\ HOLIDAYS = EmptyDict
    /\ DATA_DIR = DataDir(MissingFile, MissingFile, MissingFile)
    /\ calls = NoCalls
    /\ users = {}
    /\ tokens = {}
    /\ parking_sessions = <<>>
    /\ requests = NoRequests
    /\ rules \in RuleLists
    /\ now = Datetime(EvalDate, 0, 0, 0)
    /\ result = NoResult
    /\ pc = "ready"

\* one call of _determine_status(rules, now, current_decimal)
DetermineStatus ==
    /\ pc = "ready"
    /\ \E t \in Instants :
         /\ now' = t
         /\ result' = _determine_status(rules, t, CurrentDecimal(t))
    /\ pc' = "returned"
    /\ UNCHANGED <<catalogue, rules, DATA_DIR, layer, calls>>

NextEval == DetermineStatus

SpecEval == InitEval /\ [][NextEval]_vars

(***************************************************************************)
(* get_parking_status and its helpers.  Coordinates are in hundredths of a *)
(* degree (40.85 is 4085).                                                 *)
(***************************************************************************)
\* the final else returning no borough
_get_borough_no_default(lat, lng) ==
    IF lat > 4085 THEN "Bronx"
    ELSE IF lng < -7397 /\ lat < 4070 THEN "Staten Island"
    ELSE IF lng > -7387 THEN "Queens"
    ELSE IF lat < 4070 /\ lng > -7404 THEN "Brooklyn"
    ELSE ""

_get_borough(lat, lng) ==
    IF lat > 4085 THEN "Bronx"
    ELSE IF lng < -7397 /\ lat < 4070 THEN "Staten Island"
    ELSE IF lng > -7387 THEN "Queens"
    ELSE IF lat < 4070 /\ lng > -7404 THEN "Brooklyn"
    ELSE "Manhattan"

HolidayList == DictGet(HOLIDAYS, "holidays", <<>>)

\* holiday.get("date") == date_str and holiday.get("alternateSideSuspended", False)
HolidayMatches(holiday, date) ==
    /\ DictGet(holiday, "date", "") = date.date
    /\ DictGet(holiday, "alternateSideSuspended", FALSE)

\* the slip of returning False from inside the loop: only the first entry counts
_is_holiday_first_entry_only(date) ==
    HolidayList # <<>> /\ HolidayMatches(HolidayList[1], date)

_is_holiday(date) ==
    \E i \in 1..Len(HolidayList) : HolidayMatches(HolidayList[i], date)

_get_holiday_name(date) ==
    LET hits == {i \in 1..Len(HolidayList) : DictGet(HolidayList[i], "date", "") = date.date}
    IN  IF hits = {} THEN None
        ELSE LET first == CHOOSE i \in hits : \A j \in hits : i <= j
             IN  DictGet(HolidayList[first], "name", None)

\* default_schedules of _get_street_cleaning_rules, Monday to Thursday
DefaultSchedules ==
    (0 :> [start |-> HHMM(8, 30), end |-> HHMM(10, 0), side |-> "North/East"]) @@
    (1 :> [start |-> HHMM(11, 0), end |-> HHMM(12, 30), side |-> "South/West"]) @@
    (2 :> [start |-> HHMM(8, 30), end |-> HHMM(10, 0), side |-> "North/East"]) @@
    (3 :> [start |-> HHMM(11, 0), end |-> HHMM(12, 30), side |-> "South/West"])

ScheduleRule(schedule, borough) ==
    [id          |-> <<"cleaning", borough, DictGet(schedule, "side", Some("unknown"))>>,
     type        |-> "street_cleaning",
     description |-> <<"Alternate side parking", DictGet(schedule, "side", Some(""))>>,
     startTime   |-> DictGet(schedule, "startTime", HHMM(8, 30)),
     endTime     |-> DictGet(schedule, "endTime", HHMM(10, 0)),
     days        |-> DictGet(schedule, "days", {}),
     side        |-> DictGet(schedule, "side", None),
     maxDuration |-> None,
     rate        |-> None]

RECURSIVE ScheduleLoop(_, _, _, _)
ScheduleLoop(schedules, day_of_week, borough, i) ==
    IF i > Len(schedules) THEN <<>>
    ELSE (IF day_of_week \in DictGet(schedules[i], "days", {})
          THEN <<ScheduleRule(schedules[i], borough)>>
          ELSE <<>>)
         \o ScheduleLoop(schedules, day_of_week, borough, i + 1)

_get_street_cleaning_rules(lat, lng, day_of_week, borough) ==
    LET borough_schedules ==
            DictGet(DictGet(CLEANING_SCHEDULE, "boroughs", EmptyDict), borough, EmptyDict)
        schedules == DictGet(borough_schedules, "schedules", <<>>)
        found     == ScheduleLoop(schedules, day_of_week, borough, 1)
    IN  IF found # <<>> THEN found
        ELSE IF day_of_week \in DOMAIN DefaultSchedules
        THEN LET sched == DefaultSchedules[day_of_week]
             IN  << [id          |-> <<"cleaning", "default", day_of_week>>,
                     type        |-> "street_cleaning",
                     description |-> <<"Alternate side parking", Some(sched.side)>>,
                     startTime   |-> sched.start,
                     endTime     |-> sched.end,
                     days        |-> {day_of_week},
                     side        |-> Some(sched.side),
                     maxDuration |-> None,
                     rate        |-> None] >>
        ELSE <<>>

\* int(time_str.split(":")[0])
HourOf(time_str) ==
    CASE time_str.kind = "HH:MM" -> Ok(time_str.h)
      [] time_str.kind = "text"  -> Raised("ValueError")
      [] time_str.kind = "null"  -> Raised("AttributeError")

InBounds(bounds, lat, lng) ==
    /\ DictGet(bounds, "minLat", 0) <= lat
    /\ lat <= DictGet(bounds, "maxLat", 9000)
    /\ DictGet(bounds, "minLng", -18000) <= lng
    /\ lng <= DictGet(bounds, "maxLng", 0)

ZoneRule(zone) ==
    [id          |-> <<"meter", DictGet(zone, "code", Some("unknown"))>>,
     type        |-> "meter",
     description |-> <<"Metered parking", DictGet(zone, "name", Some("Zone"))>>,
     startTime   |-> DictGet(zone, "startTime", HHMM(7, 0)),
     endTime     |-> DictGet(zone, "endTime", HHMM(19, 0)),
     days        |-> DictGet(zone, "days", {0, 1, 2, 3, 4, 5}),
     maxDuration |-> DictGet(zone, "maxDuration", Some(DefaultMaxDuration)),
     rate        |-> DictGet(zone, "rate", Some(DefaultRate)),
     zoneCode    |-> DictGet(zone, "code", None)]

\* the loop over the catalogue's zones: Ok(None) when no zone returned a rule
RECURSIVE ZoneLoop(_, _, _, _, _)
ZoneLoop(zones, lat, lng, hour, i) ==
    IF i > Len(zones) THEN Ok(None)
    ELSE LET zone   == zones[i]
             bounds == DictGet(zone, "bounds", EmptyDict)
         IN  IF bounds # EmptyDict /\ InBounds(bounds, lat, lng)
             THEN LET start_hour == HourOf(DictGet(zone, "startTime", HHMM(7, 0)))
                      end_hour   == HourOf(DictGet(zone, "endTime", HHMM(19, 0)))
                  IN  IF start_hour.raised # "" THEN start_hour
                      ELSE IF end_hour.raised # "" THEN end_hour
                      ELSE IF start_hour.val <= hour /\ hour < end_hour.val
                      THEN Ok(Some(ZoneRule(zone)))
                      ELSE ZoneLoop(zones, lat, lng, hour, i + 1)
             ELSE ZoneLoop(zones, lat, lng, hour, i + 1)

\* f"{int(abs(lat * 1000) % 10000):04d}"
Format04d(n) ==
    (IF n < 10 THEN "000" ELSE IF n < 100 THEN "00" ELSE IF n < 1000 THEN "0" ELSE "")
        \o ToString(n)

Abs(n) == IF n < 0 THEN -n ELSE n

DefaultZoneCode(lat) ==
    LET latf  == FloatDiv(Abs(lat), 100)
        times == Round53(FxMul(FxMul(FxMul(latf, 10), 10), 10))
    IN  Format04d(FloatToInt(times) % 10000)

_check_meter_zone(lat, lng, hour, day_of_week) ==
    IF day_of_week = 6 THEN Ok(None)
    ELSE
    LET zoned == ZoneLoop(DictGet(METER_ZONES, "zones", <<>>), lat, lng, hour, 1)
        dflt  == DictGet(METER_ZONES, "default", EmptyDict)
        default_rate  == DictGet(dflt, "rate", Some(DefaultRate))
        default_max   == DictGet(dflt, "maxDuration", Some(DefaultMaxDuration))
        default_start == HourOf(DictGet(dflt, "startTime", HHMM(7, 0)))
        default_end   == HourOf(DictGet(dflt, "endTime", HHMM(19, 0)))
    IN  IF zoned.raised # "" \/ zoned.val # None THEN zoned
        ELSE IF default_start.raised # "" THEN default_start
        ELSE IF default_end.raised # "" THEN default_end
        ELSE IF default_start.val <= hour /\ hour < default_end.val
        THEN Ok(Some(
               [id          |-> <<"meter", Some(DefaultZoneCode(lat))>>,
                type        |-> "meter",
                description |-> <<"Metered parking zone">>,
                startTime   |-> HHMM(default_start.val, 0),
                endTime     |-> HHMM(default_end.val, 0),
                days        |-> {0, 1, 2, 3, 4, 5},
                maxDuration |-> default_max,
                rate        |-> default_rate,
                zoneCode    |-> Some(DefaultZoneCode(lat))]))
        ELSE Ok(None)

_check_special_restrictions(lat, lng, day_of_week, hour) == <<>>

RECURSIVE MeterMaximaLoop(_, _)
MeterMaximaLoop(rs, i) ==
    IF i > Len(rs) THEN <<>>
    ELSE (IF rs[i].type = "meter" /\ Truthy(DictGet(rs[i], "maxDuration", None))
          THEN << <<"Maximum parking time: minutes", rs[i].maxDuration[1]>> >>
          ELSE <<>>) \o MeterMaximaLoop(rs, i + 1)

FirstCleaningReminder(rs) ==
    LET hits == {i \in 1..Len(rs) : rs[i].type = "street_cleaning"}
    IN  IF hits = {} THEN <<>>
        ELSE LET first == CHOOSE i \in hits : \A j \in hits : i <= j
             IN  << <<"Remember: cleaning at", rs[first].startTime>> >>

_generate_recommendations(status, parking_type, rs, t) ==
    IF status = "red"
    THEN IF parking_type = "street_cleaning"
         THEN << <<"Find parking on the opposite side of the street">>,
                 <<"Check nearby blocks for available spots">> >>
         ELSE << <<"This location does not allow parking">>,
                 <<"Look for legal parking nearby">> >>
    ELSE IF status = "yellow"
    THEN IF parking_type = "meter"
         THEN << <<"Pay with ParkMobile or at the meter">>,
                 <<"Set a reminder before time expires">> >> \o MeterMaximaLoop(rs, 1)
         ELSE IF parking_type = "street_cleaning"
         THEN << <<"Move your car before cleaning begins">>,
                 <<"Set a reminder to avoid a ticket">> >>
         ELSE <<>>
    ELSE IF status = "green" THEN FirstCleaningReminder(rs)
    ELSE <<>>

\* json.dumps(rules)
JsonDumps(v) == [json |-> v]

ParkingStatusResult(st, rs, address, zone_code, borough, recommendations) ==
    [raised |-> "", status |-> st.status, reason |-> st.reason,
     parking_type |-> st.parking_type, rules |-> rs, rules_json |-> JsonDumps(rs),
     expires_at |-> st.expires_at, address |-> address, zone_code |-> zone_code,
     borough |-> borough, recommendations |-> recommendations]

\* the call ended in an uncaught exception
Failed(e) ==
    [raised |-> e, status |-> "", reason |-> [msg |-> ""], parking_type |-> "",
     rules |-> <<>>, rules_json |-> JsonDumps(<<>>), expires_at |-> None,
     address |-> None, zone_code |-> None, borough |-> "", recommendations |-> <<>>]

\* lines 105-122: the status, the recommendations and the result object
Assemble(st, rs, t, address, zone_code, borough, recommendations) ==
    IF st.raised # "" THEN Failed(st.raised)
    ELSE ParkingStatusResult(st, rs, address, zone_code, borough,
             recommendations
                 \o _generate_recommendations(st.status, st.parking_type, rs, t))

\* lines 95-106: the meter rule joins the list, which goes to the evaluator
Evaluate(meter_rule, cleaning_rules, t, address, borough, recommendations) ==
    IF meter_rule.raised # "" THEN Failed(meter_rule.raised)
    ELSE Assemble(_determine_status(
                      cleaning_rules \o meter_rule.val
                          \o _check_special_restrictions(address[1][1], address[1][2],
                                                         Weekday(t), t.hour),
                      t, CurrentDecimal(t)),
                  cleaning_rules \o meter_rule.val
                      \o _check_special_restrictions(address[1][1], address[1][2],
                                                     Weekday(t), t.hour),
                  t, address,
                  IF meter_rule.val # None
                  THEN DictGet(meter_rule.val[1], "zoneCode", None)
                  ELSE None,
                  borough, recommendations)

\* lines 84-93: street-cleaning rules, or the suspension notice on a holiday
Resolve(is_holiday, latitude, longitude, t, borough) ==
    Evaluate(_check_meter_zone(latitude, longitude, t.hour, Weekday(t)),
             IF ~is_holiday
             THEN _get_street_cleaning_rules(latitude, longitude, Weekday(t), borough)
             ELSE <<>>,
             t, Some(<<latitude, longitude>>), borough,
             IF ~is_holiday THEN <<>>
             ELSE << <<"Alternate side parking suspended", _get_holiday_name(t)>> >>)

get_parking_status(latitude, longitude, t) ==
    Resolve(_is_holiday(t), latitude, longitude, t, _get_borough(latitude, longitude))

(***************************************************************************)
(* Bounded inputs of the engine: catalogue contents as the three data      *)
(* files may hold them (absent file, regular entries, entries with missing *)
(* or null fields and odd time strings), query points and query times.     *)
(***************************************************************************)
CleaningRegular ==
    [boroughs |->
       ("Manhattan" :>
          [schedules |->
             << [days |-> {0, 3}, startTime |-> HHMM(8, 30), endTime |-> HHMM(10, 0),
                 side |-> Some("North")],
                [days |-> {0}, startTime |-> HHMM(9, 40), endTime |-> HHMM(10, 25),
                 side |-> Some("South")] >>])]

CleaningSparse ==
    [boroughs |->
       ("Manhattan" :>
          [schedules |->
             << [days |-> {1}],
                [days |-> {1}, startTime |-> TextTime, endTime |-> HHMM(9, 0)] >>]) @@
       ("Queens" :>
          [schedules |->
             << [days |-> {1}, startTime |-> HHMM(8, 30), endTime |-> HHMM(24, 0),
                 side |-> Some("East")] >>]) @@
       ("Brooklyn" :>
          [schedules |->
             << [days |-> {1}, startTime |-> NullTime, endTime |-> HHMM(10, 0)] >>])]

\* a borough whose only window is over early in the morning
CleaningEarly ==
    [boroughs |->
       ("Bronx" :>
          [schedules |->
             << [days |-> {1}, startTime |-> HHMM(7, 0), endTime |-> HHMM(8, 10),
                 side |-> Some("West")] >>])]

CleaningCatalogues == {EmptyDict, CleaningRegular, CleaningSparse, CleaningEarly}

MidtownBounds == [minLat |-> 4070, maxLat |-> 4080, minLng |-> -7400, maxLng |-> -7390]

MeterRegular ==
    [zones |->
       << [bounds |-> MidtownBounds, startTime |-> HHMM(9, 0), endTime |-> HHMM(22, 0),
           days |-> {0, 1, 2, 3, 4}, maxDuration |-> Some(60), rate |-> Some(450),
           code |-> Some("M1"), name |-> Some("Midtown")] >>,
     default |->
       [rate |-> Some(250), maxDuration |-> Some(240),
        startTime |-> HHMM(9, 0), endTime |-> HHMM(19, 0)]]

MeterNulls ==
    [zones |-> << [bounds |-> MidtownBounds, maxDuration |-> None, rate |-> None] >>]

MeterBadTime ==
    [zones |-> << [bounds |-> MidtownBounds, startTime |-> TextTime, code |-> Some("M2")] >>]

\* a zone whose hours are not whole and whose days leave Monday out
MeterHalfHour ==
    [zones |->
       << [bounds |-> MidtownBounds, startTime |-> HHMM(8, 30), endTime |-> HHMM(9, 30),
           days |-> {1, 2, 3, 4, 5}, maxDuration |-> Some(60), rate |-> Some(450),
           code |-> Some("M3"), name |-> Some("Midtown")] >>,
     default |-> [startTime |-> HHMM(20, 0), endTime |-> HHMM(22, 0)]]

MeterCatalogues == {EmptyDict, MeterRegular, MeterNulls, MeterBadTime, MeterHalfHour}

HolidayRegular ==
    [holidays |->
       << [date |-> "2025-05-27", name |-> Some("Observed"), alternateSideSuspended |-> FALSE],
          [date |-> "2025-05-26", name |-> Some("Memorial Day"),
           alternateSideSuspended |-> TRUE],
          [date |-> "2025-05-28", name |-> Some("Unflagged")] >>]

HolidayCatalogues == {EmptyDict, HolidayRegular}

\* one point per borough; the Manhattan point lies inside MidtownBounds
QueryPoints ==
    { <<4090, -7390>>, <<4060, -7410>>, <<4075, -7380>>, <<4065, -7395>>, <<4078, -7397>> }

\* Monday (a holiday in HolidayRegular), Tuesday, Sunday
QueryDates == {CalendarDates[1], CalendarDates[2], CalendarDates[7]}

EngineInstants ==
    { Datetime(d, h, m, s) :
        d \in QueryDates, h \in QueryHours, m \in 0..59, s \in QuerySeconds }

\* the state after the module is imported: the catalogue is loaded, no call yet
FileOf(content) == IF content = EmptyDict THEN MissingFile ELSE JsonFile(content)

Init ==
    /\ DATA_DIR \in { DataDir(FileOf(c), FileOf(m), FileOf(h)) :
                         c \in CleaningCatalogues, m \in MeterCatalogues,
                         h \in HolidayCatalogues }
    /\ CLEANING_SCHEDULE = load_json_data("nyc_cleaning.json").val
    /\ METER_ZONES = load_json_data("meter_zones.json").val
    /\ HOLIDAYS = load_json_data("holidays.json").val
    /\ calls = NoCalls
    /\ users = {}
    /\ tokens = {}
    /\ parking_sessions = <<>>
    /\ requests = NoRequests
    /\ rules = <<>>
    /\ now = Datetime(EvalDate, 0, 0, 0)
    /\ result = NoResult
    /\ pc = "ready"

\* one call of get_parking_status(latitude, longitude); datetime.now() is t
GetParkingStatus ==
    /\ pc = "ready"
    /\ \E p \in QueryPoints, t \in EngineInstants :
         LET r == get_parking_status(p[1], p[2], t)
         IN  /\ now' = t
             /\ result' = r
             /\ rules' = r.rules
    /\ pc' = "returned"
    /\ UNCHANGED <<catalogue, DATA_DIR, layer, calls>>

\* the caller has taken the result; the engine keeps nothing of the call
\* and serves the next one
Respond ==
    /\ pc = "returned"
    /\ pc' = "ready"
    /\ rules' = <<>>
    /\ now' = Datetime(EvalDate, 0, 0, 0)
    /\ result' = NoResult
    /\ UNCHANGED <<catalogue, DATA_DIR, layer, calls>>

Next == GetParkingStatus \/ Respond

Spec == Init /\ [][Next]_vars

(***************************************************************************)
(* Module import, lines 59-61: the three catalogue globals are bound one   *)
(* after another from the files of the data directory.  An exception       *)
(* leaving load_json_data ends the import.                                 *)
(***************************************************************************)
Unbound == [unbound |-> TRUE]

CleaningFiles ==
    {MissingFile, MalformedFile} \cup {JsonFile(c) : c \in CleaningCatalogues}

MeterFiles ==
    {MissingFile, MalformedFile} \cup {JsonFile(m) : m \in MeterCatalogues}

HolidayFiles ==
    {MissingFile, MalformedFile} \cup {JsonFile(h) : h \in HolidayCatalogues}

InitLoad ==
    /\ DATA_DIR \in { DataDir(c, m, h) :
                         c \in CleaningFiles, m \in MeterFiles, h \in HolidayFiles }
    /\ CLEANING_SCHEDULE = Unbound
    /\ METER_ZONES = Unbound
    /\ HOLIDAYS = Unbound
    /\ calls = NoCalls
    /\ users = {}
    /\ tokens = {}
    /\ parking_sessions = <<>>
    /\ requests = NoRequests
    /\ rules = <<>>
    /\ now = Datetime(EvalDate, 0, 0, 0)
    /\ result = NoResult
    /\ pc = "line 59"

\* CLEANING_SCHEDULE = load_json_data("nyc_cleaning.json")
LoadCleaningSchedule ==
    /\ pc = "line 59"
    /\ IF load_json_data("nyc_cleaning.json").raised # ""
       THEN /\ pc' = "import failed"
            /\ result' = Failed(load_json_data("nyc_cleaning.json").raised)
            /\ UNCHANGED CLEANING_SCHEDULE
       ELSE /\ pc' = "line 60"
            /\ CLEANING_SCHEDULE' = load_json_data("nyc_cleaning.json").val
            /\ UNCHANGED result
    /\ UNCHANGED <<METER_ZONES, HOLIDAYS, rules, now, DATA_DIR, layer, calls>>

\* METER_ZONES = load_json_data("meter_zones.json")
LoadMeterZones ==
    /\ pc = "line 60"
    /\ IF load_json_data("meter_zones.json").raised # ""
       THEN /\ pc' = "import failed"
            /\ result' = Failed(load_json_data("meter_zones.json").raised)
            /\ UNCHANGED METER_ZONES
       ELSE /\ pc' = "line 61"
            /\ METER_ZONES' = load_json_data("meter_zones.json").val
            /\ UNCHANGED result
    /\ UNCHANGED <<CLEANING_SCHEDULE, HOLIDAYS, rules, now, DATA_DIR, layer, calls>>

\* HOLIDAYS = load_json_data("holidays.json")
LoadHolidays ==
    /\ pc = "line 61"
    /\ IF load_json_data("holidays.json").raised # ""
       THEN /\ pc' = "import failed"
            /\ result' = Failed(load_json_data("holidays.json").raised)
            /\ UNCHANGED HOLIDAYS
       ELSE /\ pc' = "ready"
            /\ HOLIDAYS' = load_json_data("holidays.json").val
            /\ UNCHANGED result
    /\ UNCHANGED <<CLEANING_SCHEDULE, METER_ZONES, rules, now, DATA_DIR, layer, calls>>

NextLoad == LoadCleaningSchedule \/ LoadMeterZones \/ LoadHolidays

SpecLoad == InitLoad /\ [][NextLoad]_vars

(***************************************************************************)
(* get_parking_status called from parallel request handlers.  A call runs  *)
(* statement by statement on its own local variables; the handlers share   *)
(* the three catalogue globals, which the statements of lines 85-96 read.  *)
(***************************************************************************)
ParCleaningCatalogues == {EmptyDict, CleaningRegular}

ParMeterCatalogues == {EmptyDict, MeterRegular, MeterNulls}

ParPoints == { <<4090, -7390>>, <<4078, -7397>> }

\* Monday (a holiday in HolidayRegular), Tuesday and Sunday at 09:00,
\* and Monday at 08:00:30
ParInstants ==
    { Datetime(CalendarDates[1], 9, 0, 0), Datetime(CalendarDates[2], 9, 0, 0),
      Datetime(CalendarDates[7], 9, 0, 0), Datetime(CalendarDates[1], 8, 0, 30) }

InitPar ==
    /\ DATA_DIR \in { DataDir(FileOf(c), FileOf(m), FileOf(h)) :
                         c \in ParCleaningCatalogues, m \in ParMeterCatalogues,
                         h \in HolidayCatalogues }
    /\ CLEANING_SCHEDULE = load_json_data("nyc_cleaning.json").val
    /\ METER_ZONES = load_json_data("meter_zones.json").val
    /\ HOLIDAYS = load_json_data("holidays.json").val
    /\ calls = NoCalls
    /\ users = {}
    /\ tokens = {}
    /\ parking_sessions = <<>>
    /\ requests = NoRequests
    /\ rules = <<>>
    /\ now = Datetime(EvalDate, 0, 0, 0)
    /\ result = NoResult
    /\ pc = "ready"

\* lines 68-82: the clock is read once, the borough and the locals are set
Begin(h) ==
    /\ calls[h].pc = "idle"
    /\ \E p \in ParPoints, t \in ParInstants :
         calls' = [calls EXCEPT ![h] =
                     [IdleCall EXCEPT !.pc = "line 85", !.latitude = p[1],
                                      !.longitude = p[2], !.now = t,
                                      !.borough = _get_borough(p[1], p[2])]]
    /\ UNCHANGED <<catalogue, DATA_DIR, layer, rules, now, result, pc>>

\* the holiday test made on a second reading of the clock
CheckHoliday_rereads_clock(h) ==
    /\ calls[h].pc = "line 85"
    /\ \E t \in ParInstants :
         calls' = [calls EXCEPT ![h].pc = "line 89",
                                ![h].is_holiday = _is_holiday(t),
                                ![h].holiday_name =
                                    IF _is_holiday(t) THEN _get_holiday_name(t) ELSE None]
    /\ UNCHANGED <<catalogue, DATA_DIR, layer, rules, now, result, pc>>

\* lines 85-86
CheckHoliday(h) ==
    /\ calls[h].pc = "line 85"
    /\ calls' = [calls EXCEPT ![h].pc = "line 89",
                              ![h].is_holiday = _is_holiday(calls[h].now),
                              ![h].holiday_name =
                                  IF _is_holiday(calls[h].now)
                                  THEN _get_holiday_name(calls[h].now) ELSE None]
    /\ UNCHANGED <<catalogue, DATA_DIR, layer, rules, now, result, pc>>

\* the schedule list consumed from the catalogue while it is read
CollectCleaning_consumes_schedule(h) ==
    /\ calls[h].pc = "line 89"
    /\ calls' = [calls EXCEPT
                   ![h].pc = "line 96",
                   ![h].rules =
                       IF ~calls[h].is_holiday
                       THEN @ \o _get_street_cleaning_rules(
                                     calls[h].latitude, calls[h].longitude,
                                     Weekday(calls[h].now), calls[h].borough)
                       ELSE @,
                   ![h].recommendations =
                       IF calls[h].is_holiday
                       THEN Append(@, <<"Alternate side parking suspended",
                                        calls[h].holiday_name>>)
                       ELSE @]
    /\ CLEANING_SCHEDULE' = IF ~calls[h].is_holiday THEN EmptyDict ELSE CLEANING_SCHEDULE
    /\ UNCHANGED <<METER_ZONES, HOLIDAYS, DATA_DIR, layer, rules, now, result, pc>>

\* lines 89-93
CollectCleaning(h) ==
    /\ calls[h].pc = "line 89"
    /\ calls' = [calls EXCEPT
                   ![h].pc = "line 96",
                   ![h].rules =
                       IF ~calls[h].is_holiday
                       THEN @ \o _get_street_cleaning_rules(
                                     calls[h].latitude, calls[h].longitude,
                                     Weekday(calls[h].now), calls[h].borough)
                       ELSE @,
                   ![h].recommendations =
                       IF calls[h].is_holiday
                       THEN Append(@, <<"Alternate side parking suspended",
                                        calls[h].holiday_name>>)
                       ELSE @]
    /\ UNCHANGED <<catalogue, DATA_DIR, layer, rules, now, result, pc>>

\* lines 97-99 on the outcome of _check_meter_zone
AfterMeter(c, meter_rule) ==
    IF meter_rule.raised # ""
    THEN [c EXCEPT !.pc = "raised", !.result = Failed(meter_rule.raised)]
    ELSE IF meter_rule.val # None
    THEN [c EXCEPT !.pc = "line 102",
                   !.rules = Append(@, meter_rule.val[1]),
                   !.zone_code = DictGet(meter_rule.val[1], "zoneCode", None)]
    ELSE [c EXCEPT !.pc = "line 102"]

\* lines 96-99
CollectMeter(h) ==
    /\ calls[h].pc = "line 96"
    /\ calls' = [calls EXCEPT ![h] =
                    AfterMeter(calls[h],
                               _check_meter_zone(calls[h].latitude, calls[h].longitude,
                                                 calls[h].now.hour, Weekday(calls[h].now)))]
    /\ UNCHANGED <<catalogue, DATA_DIR, layer, rules, now, result, pc>>

\* lines 102-103
CollectSpecial(h) ==
    /\ calls[h].pc = "line 102"
    /\ calls' = [calls EXCEPT
                   ![h].pc = "line 106",
                   ![h].rules = @ \o _check_special_restrictions(
                                         calls[h].latitude, calls[h].longitude,
                                         Weekday(calls[h].now), calls[h].now.hour)]
    /\ UNCHANGED <<catalogue, DATA_DIR, layer, rules, now, result, pc>>

\* line 106 on the outcome of _determine_status
AfterStatus(c, st) ==
    IF st.raised # ""
    THEN [c EXCEPT !.pc = "raised", !.result = Failed(st.raised)]
    ELSE [c EXCEPT !.pc = "line 109", !.st = st]

\* line 106
Determine(h) ==
    /\ calls[h].pc = "line 106"
    /\ calls' = [calls EXCEPT ![h] =
                    AfterStatus(calls[h],
                                _determine_status(calls[h].rules, calls[h].now,
                                                  CurrentDecimal(calls[h].now)))]
    /\ UNCHANGED <<catalogue, DATA_DIR, layer, rules, now, result, pc>>

\* lines 109-122 on the extended recommendation list
Completed(c, recommendations) ==
    [c EXCEPT !.pc = "returned",
              !.recommendations = recommendations,
              !.result = ParkingStatusResult(c.st, c.rules,
                                             Some(<<c.latitude, c.longitude>>),
                                             c.zone_code, c.borough, recommendations)]

\* lines 109-122
Finish(h) ==
    /\ calls[h].pc = "line 109"
    /\ calls' = [calls EXCEPT ![h] =
                    Completed(calls[h],
                              calls[h].recommendations
                                  \o _generate_recommendations(
                                         calls[h].st.status, calls[h].st.parking_type,
                                         calls[h].rules, calls[h].now))]
    /\ UNCHANGED <<catalogue, DATA_DIR, layer, rules, now, result, pc>>

\* the caller has the result or the exception; the call's locals are gone
Release(h) ==
    /\ calls[h].pc \in {"returned", "raised"}
    /\ calls' = [calls EXCEPT ![h] = IdleCall]
    /\ UNCHANGED <<catalogue, DATA_DIR, layer, rules, now, result, pc>>

NextPar ==
    \E h \in Handlers :
        \/ Begin(h)
        \/ CheckHoliday(h)
        \/ CollectCleaning(h)
        \/ CollectMeter(h)
        \/ CollectSpecial(h)
        \/ Determine(h)
        \/ Finish(h)
        \/ Release(h)

SpecPar == InitPar /\ [][NextPar]_vars

(***************************************************************************)
(* _get_borough over the whole coordinate range: the poles, the date line, *)
(* the origin and both sides of each threshold of lines 130-136.           *)
(***************************************************************************)
BoroughLatitudes == {-9000, 0, 4050, 4069, 4070, 4071, 4084, 4085, 4086, 9000}

BoroughLongitudes ==
    {-18000, -7410, -7405, -7404, -7403, -7398, -7397, -7396, -7388, -7387, -7386,
     0, 18000}

InitBorough ==
    /\ CLEANING_SCHEDULE = EmptyDict
    /\ METER_ZONES = EmptyDict
    /\ HOLIDAYS = EmptyDict
    /\ DATA_DIR = DataDir(MissingFile, MissingFile, MissingFile)
    /\ calls = NoCalls
    /\ users = {}
    /\ tokens = {}
    /\ parking_sessions = <<>>
    /\ requests = NoRequests
    /\ rules = <<>>
    /\ now = Datetime(EvalDate, 0, 0, 0)
    /\ result = NoResult
    /\ pc = "ready"

\* line 75: borough = _get_borough(latitude, longitude)
ClassifyBorough ==
    /\ \E h \in Handlers, lat \in BoroughLatitudes, lng \in BoroughLongitudes :
         /\ calls[h].pc = "idle"
         /\ calls' = [calls EXCEPT ![h] =
                        [IdleCall EXCEPT !.pc = "line 77", !.latitude = lat,
                                         !.longitude = lng,
                                         !.borough = _get_borough(lat, lng)]]
    /\ UNCHANGED <<catalogue, DATA_DIR, layer, rules, now, result, pc>>

NextBorough == ClassifyBorough

SpecBorough == InitBorough /\ [][NextBorough]_vars

(***************************************************************************)
(* Vocabulary of the claims: rule windows in whole minutes since midnight. *)
(***************************************************************************)
Mins(t) == t.h * 60 + t.m

NowMin == now.hour * 60 + now.minute

Returned == pc = "returned"

IsProhibition(r) == r.type \in {"no_parking", "no_standing"}

IsCleaning(r) == r.type = "street_cleaning"

IsMeter(r) == r.type = "meter"

Idx == 1..Len(rules)

HasProhibition == \E i \in Idx : IsProhibition(rules[i])

ActiveNow(r) ==
    IsCleaning(r) /\ Mins(r.startTime) <= NowMin /\ NowMin < Mins(r.endTime)

\* the window of r starts lo..hi minutes after now
StartsIn(r, lo, hi) ==
    /\ IsCleaning(r)
    /\ lo <= Mins(r.startTime) - NowMin
    /\ Mins(r.startTime) - NowMin <= hi

SomeActive == \E i \in Idx : ActiveNow(rules[i])

\* the time t on the query's calendar date
OnQueryDate(t) == Some(Datetime(now.date, t.h, t.m, 0))

FirstProhibition == rules[CHOOSE i \in Idx :
                      IsProhibition(rules[i]) /\ \A j \in 1..(i - 1) : ~IsProhibition(rules[j])]

FirstMeter == rules[CHOOSE i \in Idx :
                IsMeter(rules[i]) /\ \A j \in 1..(i - 1) : ~IsMeter(rules[j])]

\* no cleaning window starts 0..60 minutes from now
NoneWithinHour == \A i \in Idx : ~StartsIn(rules[i], 0, WiderThreshold)

\* some cleaning window starts after now
StartsLater(r) == IsCleaning(r) /\ NowMin < Mins(r.startTime)

(***************************************************************************)
(* C1.  Prohibition dominates: whenever the matched list holds a           *)
(* no_parking or no_standing rule, at any position and beside any meter or *)
(* street-cleaning rule, the evaluator returns red, the parking type is    *)
(* the kind of the (first) prohibition rule and the expiry is none.        *)
(***************************************************************************)
C1_ProhibitionDominates ==
    (Returned /\ HasProhibition) =>
        /\ result.raised = ""
        /\ result.status = "red"
        /\ result.parking_type = FirstProhibition.type
        /\ result.expires_at = None

\* a prohibition listed after a street-cleaning window that is active now
C1_Witness ==
    /\ Returned
    /\ Len(rules) = 2
    /\ ActiveNow(rules[1])
    /\ IsProhibition(rules[2])
    /\ result.status = "red"
    /\ result.parking_type = rules[2].type

(***************************************************************************)
(* C2.  Active cleaning is red: with no prohibition matched and now inside *)
(* the window [start,end) of a matched street_cleaning rule, the result is *)
(* red, of type street_cleaning, and expires at that window's end on the   *)
(* query date -- for every list, several cleaning rules in any order       *)
(* included.                                                               *)
(***************************************************************************)
C2_ActiveCleaningRed ==
    (Returned /\ ~HasProhibition /\ SomeActive) =>
        /\ result.status = "red"
        /\ result.parking_type = "street_cleaning"
        /\ \E i \in Idx : /\ ActiveNow(rules[i])
                          /\ result.expires_at = OnQueryDate(rules[i].endTime)

(***************************************************************************)
(* C3.  Tie-break between street-cleaning rules: with two or more          *)
(* street_cleaning rules matched (and no prohibition), the result is based *)
(* on the rule that is active now if there is one, otherwise on the rule   *)
(* with the earliest future start, list order deciding among equals: it is *)
(* the result the evaluator gives when that rule is the only               *)
(* street_cleaning rule of the list.  So a rule listed first that only     *)
(* starts later never hides an active one, and an upcoming cleaning        *)
(* expires at the earliest upcoming start.                                 *)
(***************************************************************************)
CleaningCount == Cardinality({i \in Idx : IsCleaning(rules[i])})

Least(S) == CHOOSE i \in S : \A j \in S : i <= j

ActiveIdx == {i \in Idx : ActiveNow(rules[i])}

\* the upcoming rules with the earliest start
SoonestIdx ==
    {i \in Idx : /\ StartsLater(rules[i])
                 /\ \A j \in Idx : StartsLater(rules[j]) =>
                        Mins(rules[i].startTime) <= Mins(rules[j].startTime)}

\* the rule the tie-break names: active now, else starting soonest; list
\* order decides among equals
TieBreakIdx == IF ActiveIdx # {} THEN Least(ActiveIdx) ELSE Least(SoonestIdx)

\* the matched list with every other street_cleaning rule left out
RECURSIVE OnlyTieBreakRule(_)
OnlyTieBreakRule(i) ==
    IF i > Len(rules) THEN <<>>
    ELSE (IF ~IsCleaning(rules[i]) \/ i = TieBreakIdx THEN <<rules[i]>> ELSE <<>>)
         \o OnlyTieBreakRule(i + 1)

C3_CleaningTieBreak ==
    (Returned /\ ~HasProhibition /\ CleaningCount >= 2
       /\ (ActiveIdx # {} \/ SoonestIdx # {})) =>
        result = _determine_status(OnlyTieBreakRule(1), now, CurrentDecimal(now))

(***************************************************************************)
(* C4.  Cleaning-soon warning: with no prohibition, no window containing   *)
(* now, and now 0 to 30 minutes before the start of a matched              *)
(* street_cleaning window, the result is yellow / street_cleaning, expires *)
(* at that window's start on the query date, and the minute count of the   *)
(* reason is start - now in whole minutes.                                 *)
(***************************************************************************)
C4_CleaningSoon ==
    (Returned /\ ~HasProhibition /\ ~SomeActive
       /\ \E i \in Idx : StartsIn(rules[i], 0, SoonThreshold)) =>
        /\ result.status = "yellow"
        /\ result.parking_type = "street_cleaning"
        /\ \E i \in Idx :
              /\ StartsIn(rules[i], 0, SoonThreshold)
              /\ result.expires_at = OnQueryDate(rules[i].startTime)
              /\ "minutes" \in DOMAIN result.reason
              /\ result.reason.minutes = Mins(rules[i].startTime) - NowMin

(***************************************************************************)
(* C5.  Wider warning band beats the meter: with no prohibition and no     *)
(* active window, a matched street_cleaning rule starting more than 30 and *)
(* at most 60 minutes after now gives yellow / street_cleaning expiring at *)
(* that start, also when a meter rule is in the list.                      *)
(***************************************************************************)
C5_WiderBandBeatsMeter ==
    (Returned /\ ~HasProhibition /\ ~SomeActive
       /\ \E i \in Idx : StartsIn(rules[i], SoonThreshold + 1, WiderThreshold)) =>
        /\ result.status = "yellow"
        /\ result.parking_type = "street_cleaning"
        /\ \E i \in Idx :
              /\ StartsIn(rules[i], SoonThreshold + 1, WiderThreshold)
              /\ result.expires_at = OnQueryDate(rules[i].startTime)

(***************************************************************************)
(* C6.  Meter status: with a meter rule matched, no prohibition, no        *)
(* street_cleaning window containing now and none starting within 60       *)
(* minutes, the result is yellow / meter and expires at now plus the       *)
(* rule's maxDuration minutes, or never when the rule has no cap.          *)
(***************************************************************************)
C6_MeterStatus ==
    (Returned /\ ~HasProhibition /\ ~SomeActive /\ NoneWithinHour
       /\ \E i \in Idx : IsMeter(rules[i])) =>
        /\ result.status = "yellow"
        /\ result.parking_type = "meter"
        /\ result.expires_at =
              IF FirstMeter.maxDuration = None THEN None
              ELSE Some(AddMinutes(now, FirstMeter.maxDuration[1]))

(***************************************************************************)
(* C7.  Advisory green: with no prohibition, no meter and no               *)
(* street_cleaning window active or starting within 60 minutes, a matched  *)
(* street_cleaning rule starting later on the query date gives green, the  *)
(* reason cites that start time and the expiry is that start time on the   *)
(* query date.                                                             *)
(***************************************************************************)
C7_AdvisoryGreen ==
    (Returned /\ ~HasProhibition /\ ~SomeActive /\ NoneWithinHour
       /\ (\A i \in Idx : ~IsMeter(rules[i]))
       /\ \E i \in Idx : StartsLater(rules[i])) =>
        /\ result.status = "green"
        /\ result.reason.msg = "OK for now - cleaning at"
        /\ \E i \in Idx :
              /\ StartsLater(rules[i])
              /\ result.reason.time = rules[i].startTime
              /\ result.expires_at = OnQueryDate(rules[i].startTime)

(***************************************************************************)
(* C8.  Default green: an empty matched list, and every list to which none *)
(* of priorities 1 to 6 applies (no prohibition, no meter, every           *)
(* street_cleaning window already over), gives green / free with no        *)
(* expiry.                                                                 *)
(***************************************************************************)
NoPriorityApplies ==
    /\ ~HasProhibition
    /\ ~SomeActive
    /\ \A i \in Idx : ~IsMeter(rules[i]) /\ ~StartsLater(rules[i])

C8_DefaultGreen ==
    (Returned /\ NoPriorityApplies) =>
        /\ result.raised = ""
        /\ result.status = "green"
        /\ result.parking_type = "free"
        /\ result.expires_at = None
        /\ result.reason.msg = "Free parking - no restrictions"

\* a non-empty list whose only rules are cleaning windows that are over
C8_Witness ==
    /\ Returned
    /\ Len(rules) = 2
    /\ \A i \in Idx : IsCleaning(rules[i]) /\ Mins(rules[i].endTime) <= NowMin
    /\ result = FreeParking

\* the empty list
C8_WitnessEmpty == Returned /\ rules = <<>> /\ result = FreeParking

(***************************************************************************)
(* C9.  Holiday suspension: on a date the holiday calendar lists with      *)
(* alternate-side suspension, the matched-rule list of get_parking_status  *)
(* holds no street_cleaning rule, whatever the borough's schedule or the   *)
(* default schedule says for that weekday, so the result is never of type  *)
(* street_cleaning.                                                        *)
(***************************************************************************)
ListedAsSuspended ==
    /\ "holidays" \in DOMAIN HOLIDAYS
    /\ \E i \in 1..Len(HOLIDAYS.holidays) :
          /\ "date" \in DOMAIN HOLIDAYS.holidays[i]
          /\ HOLIDAYS.holidays[i].date = now.date
          /\ "alternateSideSuspended" \in DOMAIN HOLIDAYS.holidays[i]
          /\ HOLIDAYS.holidays[i].alternateSideSuspended

C9_HolidaySuspension ==
    (Returned /\ ListedAsSuspended) =>
        /\ \A i \in 1..Len(result.rules) : result.rules[i].type # "street_cleaning"
        /\ result.parking_type # "street_cleaning"

\* a suspended Monday in Manhattan, whose schedule has a Monday window
C9_Witness ==
    /\ Returned
    /\ ListedAsSuspended
    /\ Weekday(now) = 0
    /\ CLEANING_SCHEDULE = CleaningRegular
    /\ result.raised = ""
    /\ result.borough = "Manhattan"
    /\ result.recommendations # <<>>
    /\ result.recommendations[1] = <<"Alternate side parking suspended", Some("Memorial Day")>>

\* the same on the built-in default schedule
C9_WitnessDefault ==
    /\ Returned
    /\ ListedAsSuspended
    /\ Weekday(now) \in DOMAIN DefaultSchedules
    /\ CLEANING_SCHEDULE = EmptyDict
    /\ result.raised = ""

(***************************************************************************)
(* C10.  The engine never fails: for every catalogue content, coordinate   *)
(* pair and query time, get_parking_status returns a ParkingStatusResult   *)
(* and raises nothing.                                                     *)
(***************************************************************************)
C10_NeverRaises == Returned => result.raised = ""

(***************************************************************************)
(* C11.  Malformed time strings give a never-active window: a rule whose   *)
(* startTime or endTime is not an HH:MM string is never reported as        *)
(* active, soon or later today, and no exception is raised; the evaluator  *)
(* answers as it does for the list without the malformed rules.            *)
(***************************************************************************)
WellFormed(r) == r.startTime.kind = "HH:MM" /\ r.endTime.kind = "HH:MM"

HasMalformedString ==
    \E i \in Idx : IsCleaning(rules[i]) /\ ~WellFormed(rules[i])
                     /\ rules[i].startTime.kind # "null" /\ rules[i].endTime.kind # "null"

C11_MalformedNeverActive ==
    (Returned /\ HasMalformedString) =>
        /\ result.raised = ""
        /\ result = _determine_status(SelectSeq(rules, WellFormed), now, CurrentDecimal(now))

(***************************************************************************)
(* C12.  Catalogue loading fails soft: for each of the three data files,   *)
(* when the file is missing or its content is not valid JSON, the global   *)
(* loaded from it is the empty catalogue and the import goes on without an *)
(* exception.                                                              *)
(***************************************************************************)
Unreadable(filename) == ~DATA_DIR[filename].exists \/ ~DATA_DIR[filename].valid

C12_LoadFailsSoft ==
    /\ pc # "import failed"
    /\ (pc \in {"line 60", "line 61", "ready"} /\ Unreadable("nyc_cleaning.json"))
           => CLEANING_SCHEDULE = EmptyDict
    /\ (pc \in {"line 61", "ready"} /\ Unreadable("meter_zones.json"))
           => METER_ZONES = EmptyDict
    /\ (pc = "ready" /\ Unreadable("holidays.json")) => HOLIDAYS = EmptyDict

(***************************************************************************)
(* Vocabulary of the resolver claims: the point, day and zones of a query. *)
(***************************************************************************)
QueryLat == result.address[1][1]

QueryLng == result.address[1][2]

Answered == Returned /\ result.raised = ""

Zones == DictGet(METER_ZONES, "zones", <<>>)

ZoneContainsPoint(z) ==
    /\ DictGet(z, "bounds", EmptyDict) # EmptyDict
    /\ InBounds(DictGet(z, "bounds", EmptyDict), QueryLat, QueryLng)

SchedulesHere ==
    DictGet(DictGet(DictGet(CLEANING_SCHEDULE, "boroughs", EmptyDict),
                    result.borough, EmptyDict), "schedules", <<>>)

NoScheduleHere ==
    \A i \in 1..Len(SchedulesHere) : Weekday(now) \notin DictGet(SchedulesHere[i], "days", {})

NoZoneHere == \A i \in 1..Len(Zones) : ~ZoneContainsPoint(Zones[i])

(***************************************************************************)
(* C13.  An empty category matches no rule of that kind: with no cleaning  *)
(* schedule for the query's borough and day no street_cleaning rule is     *)
(* matched, with no meter zone containing the point no meter rule is       *)
(* matched, and with all three datasets empty every query yields green /   *)
(* free / no expiry.                                                       *)
(***************************************************************************)
C13_EmptyCategory ==
    Answered =>
        /\ NoScheduleHere => \A i \in Idx : ~IsCleaning(rules[i])
        /\ NoZoneHere => \A i \in Idx : ~IsMeter(rules[i])
        /\ (CLEANING_SCHEDULE = EmptyDict /\ METER_ZONES = EmptyDict /\ HOLIDAYS = EmptyDict)
               => /\ result.status = "green"
                  /\ result.parking_type = "free"
                  /\ result.expires_at = None

(***************************************************************************)
(* C14.  Meter rules are matched only by membership: a meter rule is in    *)
(* the matched list only if some catalogue zone's bounds contain the query *)
(* point, the query's day of week is in that zone's day set, and the day   *)
(* is not Sunday.                                                          *)
(***************************************************************************)
C14_MeterByMembership ==
    (Answered /\ \E i \in Idx : IsMeter(rules[i])) =>
        /\ Weekday(now) # 6
        /\ \E i \in 1..Len(Zones) :
              /\ ZoneContainsPoint(Zones[i])
              /\ Weekday(now) \in DictGet(Zones[i], "days", {0, 1, 2, 3, 4, 5})

(***************************************************************************)
(* C15.  A matched meter rule is active now: every meter rule handed to    *)
(* the evaluator has a window [startTime, endTime) that contains the query *)
(* time to the minute.                                                     *)
(***************************************************************************)
C15_MatchedMeterActive ==
    Answered =>
        \A i \in Idx :
            IsMeter(rules[i]) =>
                /\ WellFormed(rules[i])
                /\ Mins(rules[i].startTime) <= NowMin
                /\ NowMin < Mins(rules[i].endTime)

(***************************************************************************)
(* Vocabulary of the claims about calls made from parallel handlers.       *)
(***************************************************************************)
Ended(h) == calls[h].pc \in {"returned", "raised"}

SameQuery(g, h) ==
    /\ calls[g].latitude = calls[h].latitude
    /\ calls[g].longitude = calls[h].longitude
    /\ calls[g].now = calls[h].now

(***************************************************************************)
(* C16.  Determinism: two calls of the engine with identical coordinates,  *)
(* identical timestamp and the same catalogue return identical results in  *)
(* every field (or raise the same exception).                              *)
(***************************************************************************)
C16_Determinism ==
    \A g, h \in Handlers :
        (Ended(g) /\ Ended(h) /\ SameQuery(g, h)) => calls[g].result = calls[h].result

C16_Witness ==
    /\ calls[1].pc = "returned" /\ calls[2].pc = "returned"
    /\ SameQuery(1, 2)
    /\ calls[1].result.status = "yellow"
    /\ calls[1].result.recommendations # <<>>
    /\ calls[1].is_holiday

(***************************************************************************)
(* C17.  Exactly one canonical status: every result the evaluator returns  *)
(* has one status of green, yellow, red and one parking type of free,      *)
(* meter, street_cleaning, no_parking, no_standing, and the pair is the    *)
(* outcome of one priority: overlapping rules are never merged.            *)
(***************************************************************************)
CanonicalOutcomes ==
    { <<"red", "no_parking">>, <<"red", "no_standing">>, <<"red", "street_cleaning">>,
      <<"yellow", "street_cleaning">>, <<"yellow", "meter">>, <<"green", "free">> }

C17_OneCanonicalStatus ==
    (Returned /\ result.raised = "") =>
        /\ result.status \in {"green", "yellow", "red"}
        /\ result.parking_type \in
               {"free", "meter", "street_cleaning", "no_parking", "no_standing"}
        /\ <<result.status, result.parking_type>> \in CanonicalOutcomes

C17_Witness ==
    /\ Returned
    /\ Len(rules) = 2
    /\ rules[1].type = "no_standing"
    /\ rules[2].type = "no_parking"
    /\ result.raised = ""
    /\ result.status = "red"
    /\ result.parking_type = "no_standing"

C17_WitnessOverlap ==
    /\ Returned
    /\ Len(rules) = 2
    /\ IsMeter(rules[1])
    /\ ActiveNow(rules[2])
    /\ WellFormed(rules[2])
    /\ result.status = "red"
    /\ result.parking_type = "street_cleaning"

(***************************************************************************)
(* C18.  Recommendations are a function of (status, type) alone: any two   *)
(* queries whose evaluator output has the same status and the same parking *)
(* type receive the same ordered recommendation list.                      *)
(***************************************************************************)
C18_RecommendationsByStatusType ==
    \A g, h \in Handlers :
        (/\ calls[g].pc = "returned"
         /\ calls[h].pc = "returned"
         /\ calls[g].result.status = calls[h].result.status
         /\ calls[g].result.parking_type = calls[h].result.parking_type)
            => calls[g].result.recommendations = calls[h].result.recommendations

(***************************************************************************)
(* C19.  The catalogue is never mutated by queries: whatever calls have    *)
(* run, one after another or interleaved in parallel handlers, the three   *)
(* globals hold the content loaded from the data files, and each ended     *)
(* call's result is the result the same call gives when run alone.         *)
(***************************************************************************)
CatalogueAsLoaded ==
    /\ CLEANING_SCHEDULE = load_json_data("nyc_cleaning.json").val
    /\ METER_ZONES = load_json_data("meter_zones.json").val
    /\ HOLIDAYS = load_json_data("holidays.json").val

C19_CatalogueNeverMutated ==
    /\ CatalogueAsLoaded
    /\ \A h \in Handlers :
           Ended(h) =>
               calls[h].result =
                   get_parking_status(calls[h].latitude, calls[h].longitude, calls[h].now)

\* handler 1 has returned a street-cleaning answer drawn from the catalogue
\* while handler 2 is in the middle of another call
C19_Witness ==
    /\ calls[1].pc = "returned"
    /\ calls[1].result.parking_type = "street_cleaning"
    /\ \E i \in 1..Len(calls[1].rules) : calls[1].rules[i].id[2] = "Manhattan"
    /\ calls[2].pc = "line 96"
    /\ calls[2].rules # <<>>
    /\ ~SameQuery(1, 2)
    /\ CLEANING_SCHEDULE # EmptyDict

(***************************************************************************)
(* C20.  Region classification is total: for every latitude and longitude, *)
(* values outside all known regions included, _get_borough returns exactly *)
(* one of the five boroughs, and a point that satisfies none of the        *)
(* specific tests maps to the default region, Manhattan.                   *)
(***************************************************************************)
Boroughs == {"Bronx", "Staten Island", "Queens", "Brooklyn", "Manhattan"}

PassesSpecificTest(lat, lng) ==
    \/ lat > 4085
    \/ lng < -7397 /\ lat < 4070
    \/ lng > -7387
    \/ lat < 4070 /\ lng > -7404

C20_BoroughTotal ==
    \A h \in Handlers :
        calls[h].pc = "line 77" =>
            /\ calls[h].borough \in Boroughs
            /\ ~PassesSpecificTest(calls[h].latitude, calls[h].longitude)
                   => calls[h].borough = "Manhattan"

\* a point far west of every region, between the latitude thresholds
C20_Witness ==
    /\ calls[1].pc = "line 77"
    /\ calls[1].latitude = 4071
    /\ calls[1].longitude = -18000
    /\ calls[1].borough = "Manhattan"

(***************************************************************************)
(* The session layer (api/routes/parking.py over models/parking_session.py *)
(* and db/database.py).  parking_sessions is the table: row i has id i,    *)
(* the fresh uuid of the i-th insert.  Every request gets its own          *)
(* SessionLocal(); the worker processes share the database only, so a      *)
(* request is two database steps: the SELECT its handler starts with, and  *)
(* the commit of what it assigned to the object the SELECT loaded.  The    *)
(* server clock runs on UTC: datetime.now() and datetime.utcnow() agree.   *)
(***************************************************************************)
SessionIds == {1, 2}

Users == {"u1", "u2"}

Durations == {60, 120}

SessionInstants == { Datetime(CalendarDates[4], 9, 0, 0) }

\* the engine's globals and the locals of its callers: no route touches them
engineState ==
    <<CLEANING_SCHEDULE, METER_ZONES, HOLIDAYS, rules, now, result, pc, DATA_DIR, calls>>

\* ParkingSession(...) with the column defaults, as db.add and db.commit insert it
ParkingSession(id, user_id, latitude, longitude, status_result, detection_method, t) ==
    [id |-> id, user_id |-> user_id, latitude |-> latitude, longitude |-> longitude,
     address |-> status_result.address, zone_code |-> status_result.zone_code,
     borough |-> status_result.borough, status |-> status_result.status,
     status_reason |-> status_result.reason,
     parking_type |-> status_result.parking_type,
     rules_json |-> status_result.rules_json, started_at |-> t, ended_at |-> None,
     expires_at |-> status_result.expires_at, payment_status |-> "unpaid",
     payment_method |-> None, paid_duration_minutes |-> None,
     payment_expires_at |-> None, detection_method |-> detection_method,
     created_at |-> t, updated_at |-> t]

\* json.loads(session.rules_json)
JsonLoads(s) == s.json

_session_to_response(session) ==
    [id |-> session.id, userId |-> session.user_id,
     location |-> [latitude |-> session.latitude, longitude |-> session.longitude,
                   address |-> session.address, zoneCode |-> session.zone_code,
                   borough |-> session.borough, block |-> None],
     status |-> session.status, statusReason |-> session.status_reason,
     parkingType |-> session.parking_type,
     applicableRules |-> JsonLoads(session.rules_json),
     startedAt |-> session.started_at, endedAt |-> session.ended_at,
     expiresAt |-> session.expires_at, paymentStatus |-> session.payment_status,
     paymentMethod |-> session.payment_method,
     paidDurationMinutes |-> session.paid_duration_minutes,
     paymentExpiresAt |-> session.payment_expires_at,
     detectionMethod |-> session.detection_method,
     createdAt |-> session.created_at, updatedAt |-> session.updated_at]

\* filter(user_id == current_user.id, ended_at.is_(None))
ActiveSessions(user_id) ==
    {i \in 1..Len(parking_sessions) :
        /\ parking_sessions[i].user_id = user_id
        /\ parking_sessions[i].ended_at = None}

\* filter(user_id == current_user.id, ended_at.isnot(None))
EndedSessions(user_id) ==
    {i \in 1..Len(parking_sessions) :
        /\ parking_sessions[i].user_id = user_id
        /\ parking_sessions[i].ended_at # None}

\* the slip of looking a session up by its id alone
OwnSessions_any_user(session_id, user_id) ==
    {i \in 1..Len(parking_sessions) : parking_sessions[i].id = session_id}

\* filter(id == session_id, user_id == current_user.id)
OwnSessions(session_id, user_id) ==
    {i \in 1..Len(parking_sessions) :
        /\ parking_sessions[i].id = session_id
        /\ parking_sessions[i].user_id = user_id}

\* the commit of a loaded object: the unit of work writes, in one UPDATE of
\* the row, the columns whose assigned value differs from the loaded one
Flush(row, loaded, assigned) ==
    [c \in DOMAIN row |->
        IF c \in DOMAIN assigned /\ assigned[c] # loaded[c] THEN assigned[c]
        ELSE row[c]]

Commit(loaded, assigned) ==
    [parking_sessions EXCEPT ![loaded.id] = Flush(@, loaded, assigned)]

\* the worker is between requests: its last answer has been sent
Free(w) == requests[w].pc \in {"idle", "done"}

Serving(req, op) == requests[req].pc = "loaded" /\ requests[req].op = op

\* the request as its handler holds it after the SELECT
Loaded(op, user, session_id, point, method, durationMinutes, loaded) ==
    [pc |-> "loaded", op |-> op, user |-> user, session_id |-> session_id,
     latitude |-> point[1], longitude |-> point[2], method |-> method,
     durationMinutes |-> durationMinutes, loaded |-> loaded, token |-> None,
     code |-> 0, body |-> <<>>]

\* the handler returned (200) or raised HTTPException(code, detail): its
\* locals are gone, the worker holds the answer it sent
Answer(req, code, body) ==
    [IdleRequest EXCEPT !.pc = "done", !.op = req.op, !.user = req.user,
                        !.session_id = req.session_id, !.code = code,
                        !.body = body]

NoPoint == <<0, 0>>

\* create_session, lines 125-134
CreateSessionQuery(w) ==
    /\ Free(w)
    /\ \E user \in users, point \in ParPoints :
         LET req == Loaded("create_session", user, 0, point, "", 0, None)
         IN  IF ActiveSessions(user) # {}
             THEN requests' = [requests EXCEPT ![w] =
                     Answer(req, 400, <<"You already have an active parking session">>)]
             ELSE /\ Len(parking_sessions)
                        + Cardinality({v \in Workers : Serving(v, "create_session")})
                          < Cardinality(SessionIds)
                  /\ requests' = [requests EXCEPT ![w] = req]
    /\ UNCHANGED <<engineState, users, tokens, parking_sessions>>

\* create_session, lines 137-162
CreateSessionCommit(w) ==
    /\ Serving(w, "create_session")
    /\ \E t \in SessionInstants :
         \E status_result \in
               {get_parking_status(requests[w].latitude, requests[w].longitude, t)} :
            IF status_result.raised # ""
            THEN /\ requests' = [requests EXCEPT ![w] =
                        Answer(@, 500, <<"Internal Server Error">>)]
                 /\ UNCHANGED parking_sessions
            ELSE \E session \in
                      {ParkingSession(Len(parking_sessions) + 1, requests[w].user,
                                      requests[w].latitude, requests[w].longitude,
                                      status_result, "manual", t)} :
                    /\ parking_sessions' = Append(parking_sessions, session)
                    /\ requests' = [requests EXCEPT ![w] = Answer(@, 200, <<session.id>>)]
    /\ UNCHANGED <<engineState, users, tokens>>

\* end_session, lines 174-189
EndSessionQuery(w) ==
    /\ Free(w)
    /\ \E user \in users, session_id \in SessionIds :
         LET req == Loaded("end_session", user, session_id, NoPoint, "", 0, None)
             found == OwnSessions(session_id, user)
         IN  requests' = [requests EXCEPT ![w] =
                IF found = {} THEN Answer(req, 404, <<"Session not found">>)
                ELSE IF parking_sessions[session_id].ended_at # None
                THEN Answer(req, 400, <<"Session already ended">>)
                ELSE [req EXCEPT !.loaded = Some(parking_sessions[session_id])]]
    /\ UNCHANGED <<engineState, users, tokens, parking_sessions>>

\* end_session, lines 191-195
EndSessionCommit(w) ==
    /\ Serving(w, "end_session")
    /\ \E t \in SessionInstants :
         /\ parking_sessions' =
               Commit(requests[w].loaded[1], [ended_at |-> Some(t), updated_at |-> t])
         /\ requests' = [requests EXCEPT ![w] =
               Answer(@, 200, <<"Session ended successfully">>)]
    /\ UNCHANGED <<engineState, users, tokens>>

\* filter(id == session_id, user_id == current_user.id, ended_at.is_(None)).first()
ActiveSession(session_id, user_id) ==
    IF session_id \in OwnSessions(session_id, user_id) \cap ActiveSessions(user_id)
    THEN Some(parking_sessions[session_id])
    ELSE None

\* update_session_location, lines 208-218
UpdateLocationQuery(w) ==
    /\ Free(w)
    /\ \E user \in users, session_id \in SessionIds, point \in ParPoints :
         LET req == Loaded("update_session_location", user, session_id, point, "", 0,
                           ActiveSession(session_id, user))
         IN  requests' = [requests EXCEPT ![w] =
                IF req.loaded = None
                THEN Answer(req, 404, <<"Active session not found">>)
                ELSE req]
    /\ UNCHANGED <<engineState, users, tokens, parking_sessions>>

\* update_session_location, lines 227-241: what the handler assigns
LocationUpdate(latitude, longitude, status_result, t) ==
    [latitude |-> latitude, longitude |-> longitude,
     address |-> status_result.address, zone_code |-> status_result.zone_code,
     borough |-> status_result.borough, status |-> status_result.status,
     status_reason |-> status_result.reason,
     parking_type |-> status_result.parking_type,
     rules_json |-> status_result.rules_json,
     expires_at |-> status_result.expires_at, payment_status |-> "unpaid",
     payment_method |-> None, paid_duration_minutes |-> None,
     payment_expires_at |-> None, updated_at |-> t]

\* update_session_location, lines 221-246
UpdateLocationCommit(w) ==
    /\ Serving(w, "update_session_location")
    /\ \E t \in SessionInstants :
         \E status_result \in
               {get_parking_status(requests[w].latitude, requests[w].longitude, t)} :
            IF status_result.raised # ""
            THEN /\ requests' = [requests EXCEPT ![w] =
                        Answer(@, 500, <<"Internal Server Error">>)]
                 /\ UNCHANGED parking_sessions
            ELSE /\ parking_sessions' =
                       Commit(requests[w].loaded[1],
                              LocationUpdate(requests[w].latitude, requests[w].longitude,
                                             status_result, t))
                 /\ requests' = [requests EXCEPT ![w] =
                       Answer(@, 200, <<requests[w].session_id>>)]
    /\ UNCHANGED <<engineState, users, tokens>>

\* confirm_payment, lines 259-269
ConfirmPaymentQuery(w) ==
    /\ Free(w)
    /\ \E user \in users, session_id \in SessionIds, durationMinutes \in Durations :
         LET req == Loaded("confirm_payment", user, session_id, NoPoint, "coin",
                           durationMinutes, ActiveSession(session_id, user))
         IN  requests' = [requests EXCEPT ![w] =
                IF req.loaded = None
                THEN Answer(req, 404, <<"Active session not found">>)
                ELSE req]
    /\ UNCHANGED <<engineState, users, tokens, parking_sessions>>

\* confirm_payment, lines 273-279: what the handler assigns
Payment(method, durationMinutes, t) ==
    [payment_status |-> "paid", payment_method |-> Some(method),
     paid_duration_minutes |-> Some(durationMinutes),
     payment_expires_at |-> Some(AddMinutes(t, durationMinutes)),
     status |-> "green",
     status_reason |-> [msg |-> "Paid for minutes", minutes |-> durationMinutes],
     updated_at |-> t]

\* confirm_payment, lines 273-284
ConfirmPaymentCommit(w) ==
    /\ Serving(w, "confirm_payment")
    /\ \E t \in SessionInstants :
         /\ parking_sessions' =
               Commit(requests[w].loaded[1],
                      Payment(requests[w].method, requests[w].durationMinutes, t))
         /\ requests' = [requests EXCEPT ![w] =
               Answer(@, 200, <<requests[w].session_id>>)]
    /\ UNCHANGED <<engineState, users, tokens>>

\* get_current_session: .first() of the caller's active sessions, in whatever
\* order the database yields them
GetCurrentSession(w) ==
    /\ Free(w)
    /\ \E user \in users :
         LET req == Loaded("get_current_session", user, 0, NoPoint, "", 0, None)
         IN  IF ActiveSessions(user) = {}
             THEN requests' = [requests EXCEPT ![w] =
                     Answer(req, 404, <<"No active session">>)]
             ELSE \E i \in ActiveSessions(user) :
                     requests' = [requests EXCEPT ![w] =
                        Answer(req, 200, <<_session_to_response(parking_sessions[i])>>)]
    /\ UNCHANGED <<engineState, users, tokens, parking_sessions>>

\* the instant as minutes from the start of the calendar
Timestamp(dt) == ((DateIndex(dt.date) - 1) * 24 + dt.hour) * 60 + dt.minute

\* order_by(ended_at.desc()): the rows of S, equal keys in any order
OrderedByEndedAtDesc(S) ==
    {s \in [1..Cardinality(S) -> S] :
        /\ \A i, j \in 1..Cardinality(S) : i # j => s[i] # s[j]
        /\ \A i, j \in 1..Cardinality(S) :
              i < j => Timestamp(parking_sessions[s[i]].ended_at[1])
                          >= Timestamp(parking_sessions[s[j]].ended_at[1])}

\* offset((page - 1) * pageSize).limit(pageSize)
Page(s, page, pageSize) ==
    SubSeq(s, (page - 1) * pageSize + 1,
           IF page * pageSize < Len(s) THEN page * pageSize ELSE Len(s))

PaginatedSessions(s, total, page, pageSize) ==
    [items |-> [i \in 1..Len(s) |-> _session_to_response(parking_sessions[s[i]])],
     total |-> total, page |-> page, pageSize |-> pageSize,
     hasMore |-> page * pageSize < total]

PageSizes == {1, 20}

get_history(w) ==
    /\ Free(w)
    /\ \E user \in users, pageSize \in PageSizes :
         \E sessions \in OrderedByEndedAtDesc(EndedSessions(user)) :
            requests' = [requests EXCEPT ![w] =
               Answer(Loaded("get_history", user, 0, NoPoint, "", 0, None), 200,
                      <<PaginatedSessions(Page(sessions, 1, pageSize),
                                          Cardinality(EndedSessions(user)), 1,
                                          pageSize)>>)]
    /\ UNCHANGED <<engineState, users, tokens, parking_sessions>>

\* the requests that write: what one worker may do next
Write(w) ==
    \/ CreateSessionQuery(w)
    \/ CreateSessionCommit(w)
    \/ EndSessionQuery(w)
    \/ EndSessionCommit(w)
    \/ UpdateLocationQuery(w)
    \/ UpdateLocationCommit(w)
    \/ ConfirmPaymentQuery(w)
    \/ ConfirmPaymentCommit(w)

\* the requests that read
Read(w) ==
    \/ GetCurrentSession(w)
    \/ get_history(w)

InitDatabase ==
    /\ DATA_DIR = DataDir(FileOf(CleaningRegular), FileOf(MeterRegular), MissingFile)
    /\ CLEANING_SCHEDULE = load_json_data("nyc_cleaning.json").val
    /\ METER_ZONES = load_json_data("meter_zones.json").val
    /\ HOLIDAYS = load_json_data("holidays.json").val
    /\ calls = NoCalls
    /\ tokens = {}
    /\ parking_sessions = <<>>
    /\ requests = NoRequests
    /\ rules = <<>>
    /\ now = Datetime(EvalDate, 0, 0, 0)
    /\ result = NoResult
    /\ pc = "ready"

\* two worker processes over one database, one registered user
InitWorkers == InitDatabase /\ users = {"u1"}

\* the clients park and leave: create_session and end_session in any interleaving
NextPark ==
    \E w \in Workers :
        \/ CreateSessionQuery(w)
        \/ CreateSessionCommit(w)
        \/ EndSessionQuery(w)
        \/ EndSessionCommit(w)

SpecPark == InitWorkers /\ [][NextPark]_vars

\* no session has been created and none is being created
NoSessionYet ==
    parking_sessions = <<>> /\ \A v \in Workers : ~Serving(v, "create_session")

\* the clients of one car: one session, then moves and payments in any interleaving
NextMove ==
    \E w \in Workers :
        \/ NoSessionYet /\ CreateSessionQuery(w)
        \/ CreateSessionCommit(w)
        \/ UpdateLocationQuery(w)
        \/ UpdateLocationCommit(w)
        \/ ConfirmPaymentQuery(w)
        \/ ConfirmPaymentCommit(w)

SpecMove == InitWorkers /\ [][NextMove]_vars

\* the clients of one car: one session, then moves and the end in any interleaving
NextLeave ==
    \E w \in Workers :
        \/ NoSessionYet /\ CreateSessionQuery(w)
        \/ CreateSessionCommit(w)
        \/ UpdateLocationQuery(w)
        \/ UpdateLocationCommit(w)
        \/ EndSessionQuery(w)
        \/ EndSessionCommit(w)

SpecLeave == InitWorkers /\ [][NextLeave]_vars

\* one worker, which serves its requests one after the other, two users
InitSerial == InitDatabase /\ users = Users

NextSerial == Write(1) \/ Read(1)

SpecSerial == InitSerial /\ [][NextSerial]_vars

(***************************************************************************)
(* C21.  Status is re-derived on every move: after a successful            *)
(* update_session_location, and after create_session, the stored session's *)
(* coordinates are the request's and its status, reason, parking type,     *)
(* expiry, zone code, borough and serialized rules are the engine's result *)
(* for those coordinates at that moment; the engine's own state is the     *)
(* same before and after.                                                  *)
(***************************************************************************)
EngineResults(w) ==
    {get_parking_status(requests[w].latitude, requests[w].longitude, t) :
        t \in SessionInstants}

Stores(session, w, status_result) ==
    /\ session.latitude = requests[w].latitude
    /\ session.longitude = requests[w].longitude
    /\ session.status = status_result.status
    /\ session.status_reason = status_result.reason
    /\ session.parking_type = status_result.parking_type
    /\ session.expires_at = status_result.expires_at
    /\ session.zone_code = status_result.zone_code
    /\ session.borough = status_result.borough
    /\ session.rules_json = status_result.rules_json

\* worker w's request of this kind succeeds in this step
Succeeds(w, op) == Serving(w, op) /\ requests'[w].code = 200

C21_StatusRederived ==
    [][\A w \in Workers :
          /\ Succeeds(w, "update_session_location") =>
                \E r \in EngineResults(w) :
                    Stores(parking_sessions'[requests[w].session_id], w, r)
          /\ Succeeds(w, "create_session") =>
                \E r \in EngineResults(w) :
                    Stores(parking_sessions'[Len(parking_sessions')], w, r)
          /\ catalogue' = catalogue]_vars

(***************************************************************************)
(* C22.  At most one active session per user: in every reachable state,    *)
(* whatever the interleaving of the requests, each user has at most one    *)
(* session whose ended_at is null; and a create_session that arrives while *)
(* its user has an active session is answered with an error and adds no    *)
(* session.                                                                *)
(***************************************************************************)
AtMostOneActive == \A user \in users : Cardinality(ActiveSessions(user)) <= 1

\* worker w takes a request of this kind in this step
Takes(w, op) == Free(w) /\ requests'[w] # requests[w] /\ requests'[w].op = op

RefusesSecondCreate ==
    \A w \in Workers :
        Takes(w, "create_session") /\ ActiveSessions(requests'[w].user) # {} =>
            /\ requests'[w].code = 400
            /\ parking_sessions' = parking_sessions

C22_OneActiveSession == []AtMostOneActive /\ [][RefusesSecondCreate]_vars

(***************************************************************************)
(* C23.  Ended sessions are terminal: no step changes a session whose      *)
(* ended_at is set; an end_session that names an ended session of its      *)
(* caller is answered 400, an update_session_location or confirm_payment   *)
(* that names one is answered 404, and the table is the same before and    *)
(* after the refusal; no end_session succeeds on a session already ended.  *)
(***************************************************************************)
IsEnded(session_id) ==
    /\ session_id \in 1..Len(parking_sessions)
    /\ parking_sessions[session_id].ended_at # None

EndedStaysAsItIs ==
    \A i \in 1..Len(parking_sessions) :
        IsEnded(i) => parking_sessions'[i] = parking_sessions[i]

\* the request worker w takes in this step names an ended session of its caller
NamesEndedSession(w, op) ==
    /\ Takes(w, op)
    /\ IsEnded(requests'[w].session_id)
    /\ parking_sessions[requests'[w].session_id].user_id = requests'[w].user

RefusesOnEnded ==
    \A w \in Workers :
        /\ NamesEndedSession(w, "end_session") =>
              requests'[w].code = 400 /\ parking_sessions' = parking_sessions
        /\ NamesEndedSession(w, "update_session_location") =>
              requests'[w].code = 404 /\ parking_sessions' = parking_sessions
        /\ NamesEndedSession(w, "confirm_payment") =>
              requests'[w].code = 404 /\ parking_sessions' = parking_sessions
        /\ Succeeds(w, "end_session") => ~IsEnded(requests[w].session_id)

C23_EndedIsTerminal == [][EndedStaysAsItIs /\ RefusesOnEnded]_vars

(***************************************************************************)
(* C24.  Payment fields stay consistent: in every reachable state every    *)
(* session is "paid" exactly when payment_method, paid_duration_minutes    *)
(* and payment_expires_at are all set and "unpaid" exactly when all three  *)
(* are null; a created session is unpaid, a successful confirm_payment     *)
(* leaves its session paid with the request's method and duration, and a   *)
(* successful update_session_location leaves its session unpaid.           *)
(***************************************************************************)
PaymentSet(session) ==
    /\ session.payment_method # None
    /\ session.paid_duration_minutes # None
    /\ session.payment_expires_at # None

PaymentNull(session) ==
    /\ session.payment_method = None
    /\ session.paid_duration_minutes = None
    /\ session.payment_expires_at = None

PaymentConsistent ==
    \A i \in 1..Len(parking_sessions) :
        /\ parking_sessions[i].payment_status = "paid" <=> PaymentSet(parking_sessions[i])
        /\ parking_sessions[i].payment_status = "unpaid" <=>
              PaymentNull(parking_sessions[i])

PaymentSteps ==
    \A w \in Workers :
        /\ Succeeds(w, "create_session") =>
              /\ parking_sessions'[Len(parking_sessions')].payment_status = "unpaid"
              /\ PaymentNull(parking_sessions'[Len(parking_sessions')])
        /\ Succeeds(w, "confirm_payment") =>
              /\ parking_sessions'[requests[w].session_id].payment_status = "paid"
              /\ parking_sessions'[requests[w].session_id].payment_method
                    = Some(requests[w].method)
              /\ parking_sessions'[requests[w].session_id].paid_duration_minutes
                    = Some(requests[w].durationMinutes)
              /\ parking_sessions'[requests[w].session_id].payment_expires_at # None
        /\ Succeeds(w, "update_session_location") =>
              /\ parking_sessions'[requests[w].session_id].payment_status = "unpaid"
              /\ PaymentNull(parking_sessions'[requests[w].session_id])

C24_PaymentConsistent == []PaymentConsistent /\ [][PaymentSteps]_vars

(***************************************************************************)
(* C25.  Effect of confirm_payment: a successful confirm_payment leaves    *)
(* its session green, whatever the status was before, and leaves the       *)
(* session's parking_type, rules_json, expires_at, coordinates and         *)
(* ended_at as they were; a paid session stays green in every step that    *)
(* is not the commit of an update_session_location on it.                  *)
(***************************************************************************)
PaidGreen(session) ==
    /\ session.status = "green"
    /\ DOMAIN session.status_reason = {"msg", "minutes"}

ConfirmEffect ==
    \A w \in Workers :
        Succeeds(w, "confirm_payment") =>
            /\ parking_sessions'[requests[w].session_id].status = "green"
            /\ \A c \in {"parking_type", "rules_json", "expires_at", "latitude",
                          "longitude", "ended_at"} :
                  parking_sessions'[requests[w].session_id][c]
                      = parking_sessions[requests[w].session_id][c]

GreenUntilMoved ==
    \A i \in 1..Len(parking_sessions) :
        PaidGreen(parking_sessions[i]) =>
            \/ parking_sessions'[i].status = "green"
            \/ \E w \in Workers :
                  /\ Succeeds(w, "update_session_location")
                  /\ requests[w].session_id = i

C25_ConfirmPaymentEffect == [][ConfirmEffect /\ GreenUntilMoved]_vars

(***************************************************************************)
(* C26.  Sessions are isolated per user: an end_session,                   *)
(* update_session_location or confirm_payment that names a session of      *)
(* another user is answered 404 and leaves the table as it was; what       *)
(* get_current_session and get_history answer are sessions of the caller.  *)
(***************************************************************************)
\* the request worker w takes in this step names a session of another user
NamesForeignSession(w) ==
    /\ Free(w)
    /\ requests'[w] # requests[w]
    /\ requests'[w].op \in {"end_session", "update_session_location", "confirm_payment"}
    /\ requests'[w].session_id \in 1..Len(parking_sessions)
    /\ parking_sessions[requests'[w].session_id].user_id # requests'[w].user

RefusesForeign ==
    \A w \in Workers :
        NamesForeignSession(w) =>
            requests'[w].code = 404 /\ parking_sessions' = parking_sessions

\* the sessions in the answer worker w holds
Returned_sessions(w) ==
    IF requests[w].op = "get_current_session" /\ requests[w].code = 200
    THEN {requests[w].body[1]}
    ELSE IF requests[w].op = "get_history"
    THEN {requests[w].body[1].items[i] : i \in 1..Len(requests[w].body[1].items)}
    ELSE {}

ReadsOwn ==
    \A w \in Workers : \A r \in Returned_sessions(w) : r.userId = requests[w].user

C26_IsolatedPerUser == []ReadsOwn /\ [][RefusesForeign]_vars

\* a user holds a history page while the other user has sessions too
C26_WitnessHistory ==
    /\ requests[1].op = "get_history"
    /\ requests[1].body[1].items # <<>>
    /\ \E i \in 1..Len(parking_sessions) : parking_sessions[i].user_id # requests[1].user

\* a user has been refused on the other user's active session
C26_Witness ==
    /\ requests[1].op \in {"end_session", "update_session_location", "confirm_payment"}
    /\ requests[1].code = 404
    /\ requests[1].session_id \in 1..Len(parking_sessions)
    /\ parking_sessions[requests[1].session_id].user_id # requests[1].user
    /\ parking_sessions[requests[1].session_id].ended_at = None

(***************************************************************************)
(* Tokens (services/auth/token_service.py, api/dependencies.py and the     *)
(* refresh route of api/routes/auth.py).  A token is what jwt.encode made  *)
(* of a payload, a key and an algorithm, or a string that is no JWT at     *)
(* all; the clock of this part counts minutes.                             *)
(***************************************************************************)
SECRET_KEY == "JWT_SECRET_KEY"

ALGORITHM == "HS256"

ACCESS_TOKEN_EXPIRE_MINUTES == 60

REFRESH_TOKEN_EXPIRE_DAYS == 30

MinutesPerDay == 1440

\* jwt.encode(payload, key, algorithm)
jwt_encode(payload, key, algorithm) ==
    [form |-> "jwt", header |-> [alg |-> algorithm], payload |-> payload,
     signature |-> key]

\* jwt.exceptions: the subclasses of InvalidTokenError that decode raises
InvalidTokenError ==
    {"DecodeError", "InvalidAlgorithmError", "InvalidSignatureError",
     "ExpiredSignatureError"}

\* jwt.decode(token, key, algorithms) at time t: the segments are parsed, the
\* header's algorithm is looked up, the signature is verified, exp is validated
jwt_decode(token, key, algorithms, t) ==
    IF token.form # "jwt" THEN Raised("DecodeError")
    ELSE IF token.header.alg \notin algorithms THEN Raised("InvalidAlgorithmError")
    ELSE IF token.signature # key THEN Raised("InvalidSignatureError")
    ELSE IF token.payload.exp <= t THEN Raised("ExpiredSignatureError")
    ELSE Ok(token.payload)

create_access_token(user_id, t) ==
    jwt_encode([sub |-> user_id, exp |-> t + ACCESS_TOKEN_EXPIRE_MINUTES, iat |-> t,
                type |-> "access"],
               SECRET_KEY, ALGORITHM)

create_refresh_token(user_id, t) ==
    jwt_encode([sub |-> user_id, exp |-> t + REFRESH_TOKEN_EXPIRE_DAYS * MinutesPerDay,
                iat |-> t, type |-> "refresh"],
               SECRET_KEY, ALGORITHM)

\* expiresAt is int(timestamp() * 1000): the seconds, and the milliseconds in them
create_tokens(user_id, t) ==
    [accessToken |-> create_access_token(user_id, t),
     refreshToken |-> create_refresh_token(user_id, t),
     expiresAt |-> [seconds |-> (t + ACCESS_TOKEN_EXPIRE_MINUTES) * 60, ms |-> 0]]

\* the try block and the two except clauses; any other exception passes through
Verified(decoded, type) ==
    IF decoded.raised = "ExpiredSignatureError" THEN Ok(None)
    ELSE IF decoded.raised \in InvalidTokenError THEN Ok(None)
    ELSE IF decoded.raised # "" THEN decoded
    ELSE IF DictGet(decoded.val, "type", "") # type THEN Ok(None)
    ELSE Ok(Some(decoded.val))

\* the slip of returning the payload of any token this server signed
verify_access_token_any_type(token, t) ==
    Verified(jwt_decode(token, SECRET_KEY, {ALGORITHM}, t),
             DictGet(token, "payload", [type |-> ""]).type)

verify_access_token(token, t) ==
    Verified(jwt_decode(token, SECRET_KEY, {ALGORITHM}, t), "access")

verify_refresh_token(token, t) ==
    Verified(jwt_decode(token, SECRET_KEY, {ALGORITHM}, t), "refresh")

\* raise HTTPException(status_code, detail)
HTTPException(status_code, detail) ==
    [raised |-> "HTTPException", val |-> None, status_code |-> status_code,
     detail |-> detail]

\* get_current_user: the user, or the answer the exception becomes
get_current_user(token, t) ==
    LET payload == verify_access_token(token, t)
    IN  IF payload.raised # "" THEN HTTPException(500, "Internal Server Error")
        ELSE IF payload.val = None
        THEN HTTPException(401, "Invalid or expired token")
        ELSE IF "sub" \notin DOMAIN payload.val[1]
        THEN HTTPException(401, "Invalid token payload")
        ELSE IF payload.val[1].sub \notin users
        THEN HTTPException(401, "User not found")
        ELSE Ok(payload.val[1].sub)

\* what a client can present that this server did not issue
WrongKey == "another key"

ForeignPayloads ==
    {[sub |-> "u1", exp |-> 2 * REFRESH_TOKEN_EXPIRE_DAYS * MinutesPerDay, iat |-> 0,
      type |-> type] : type \in {"access", "refresh"}}

Forgeries ==
    {[form |-> "text"]}
        \cup {jwt_encode(p, WrongKey, ALGORITHM) : p \in ForeignPayloads}
        \cup {jwt_encode(p, "", "none") : p \in ForeignPayloads}

MaxTokens == 4

ClockReadings ==
    {0, 45, 90, REFRESH_TOKEN_EXPIRE_DAYS * MinutesPerDay - 30,
     REFRESH_TOKEN_EXPIRE_DAYS * MinutesPerDay + 30}

\* the request as answered, with the token it carried
Answered_with(op, token, answer) ==
    [IdleRequest EXCEPT !.pc = "done", !.op = op, !.token = Some(token),
                        !.user = IF answer.raised = "" THEN answer.val ELSE "",
                        !.code = IF answer.raised = "" THEN 200
                                 ELSE answer.status_code,
                        !.body = IF answer.raised = "" THEN <<>>
                                 ELSE <<answer.detail>>]

\* login_with_apple, login_with_google: the provider vouched for a user
Login ==
    /\ Cardinality(tokens) < MaxTokens
    /\ \E user \in users :
         tokens' = tokens \cup {create_tokens(user, now).accessToken,
                                create_tokens(user, now).refreshToken}
    /\ UNCHANGED <<CLEANING_SCHEDULE, METER_ZONES, HOLIDAYS, rules, now, result, pc,
                   DATA_DIR, calls, users, parking_sessions, requests>>

\* time passes
Tick ==
    /\ \E t \in ClockReadings : t > now /\ now' = t
    /\ UNCHANGED <<CLEANING_SCHEDULE, METER_ZONES, HOLIDAYS, rules, result, pc,
                   DATA_DIR, calls, layer>>

\* get_profile: a route behind Depends(get_current_user)
GetProfile(w) ==
    /\ Free(w)
    /\ \E token \in tokens \cup Forgeries :
         requests' = [requests EXCEPT ![w] =
            Answered_with("get_profile", token, get_current_user(token, now))]
    /\ UNCHANGED <<engineState, users, tokens, parking_sessions>>

\* delete_account
DeleteAccount(w) ==
    /\ Free(w)
    /\ \E token \in tokens \cup Forgeries :
         /\ requests' = [requests EXCEPT ![w] =
               Answered_with("delete_account", token, get_current_user(token, now))]
         /\ users' = IF get_current_user(token, now).raised = ""
                     THEN users \ {get_current_user(token, now).val}
                     ELSE users
    /\ UNCHANGED <<engineState, tokens, parking_sessions>>

\* refresh_tokens: the user of the refresh token, or the 401
RefreshUser(token, t) ==
    LET payload == verify_refresh_token(token, t)
    IN  IF payload.raised # "" THEN HTTPException(500, "Internal Server Error")
        ELSE IF payload.val = None THEN HTTPException(401, "Invalid refresh token")
        ELSE IF payload.val[1].sub \notin users
        THEN HTTPException(401, "User not found")
        ELSE Ok(payload.val[1].sub)

RefreshTokens(w) ==
    /\ Free(w)
    /\ \E token \in tokens \cup Forgeries :
         /\ RefreshUser(token, now).raised = "" => Cardinality(tokens) < MaxTokens
         /\ requests' = [requests EXCEPT ![w] =
               Answered_with("refresh_tokens", token, RefreshUser(token, now))]
         /\ tokens' = IF RefreshUser(token, now).raised # "" THEN tokens
                      ELSE tokens \cup
                             {create_tokens(RefreshUser(token, now).val, now).accessToken,
                              create_tokens(RefreshUser(token, now).val, now).refreshToken}
    /\ UNCHANGED <<engineState, users, parking_sessions>>

InitTokens ==
    /\ DATA_DIR = DataDir(MissingFile, MissingFile, MissingFile)
    /\ CLEANING_SCHEDULE = load_json_data("nyc_cleaning.json").val
    /\ METER_ZONES = load_json_data("meter_zones.json").val
    /\ HOLIDAYS = load_json_data("holidays.json").val
    /\ calls = NoCalls
    /\ users = Users
    /\ tokens = {}
    /\ parking_sessions = <<>>
    /\ requests = NoRequests
    /\ rules = <<>>
    /\ now = 0
    /\ result = NoResult
    /\ pc = "ready"

NextTokens ==
    \/ Login
    \/ Tick
    \/ GetProfile(1)
    \/ DeleteAccount(1)
    \/ RefreshTokens(1)

SpecTokens == InitTokens /\ [][NextTokens]_vars

(***************************************************************************)
(* C27.  Token kinds are never confused: verify_access_token returns None  *)
(* for every token issued as a refresh token, and get_current_user answers *)
(* 401 for it; verify_refresh_token returns None for every token issued as *)
(* an access token, and the refresh route answers 401 for it; for a token  *)
(* that is invalid or expired both functions return None and raise         *)
(* nothing.                                                                *)
(***************************************************************************)
IssuedAs(type) == {token \in tokens : token.payload.type = type}

\* jwt.decode does not accept the token now
InvalidOrExpired(token) == jwt_decode(token, SECRET_KEY, {ALGORITHM}, now).raised # ""

\* worker w holds the answer to a request of these kinds that carried one of these tokens
AnsweredOn(w, ops, carried) ==
    /\ requests[w].pc = "done"
    /\ requests[w].op \in ops
    /\ requests[w].token # None
    /\ requests[w].token[1] \in carried

C27_TokenKindsApart ==
    /\ \A token \in IssuedAs("refresh") : verify_access_token(token, now) = Ok(None)
    /\ \A token \in IssuedAs("access") : verify_refresh_token(token, now) = Ok(None)
    /\ \A token \in tokens \cup Forgeries :
          InvalidOrExpired(token) =>
              /\ verify_access_token(token, now) = Ok(None)
              /\ verify_refresh_token(token, now) = Ok(None)
    /\ \A w \in Workers :
          /\ AnsweredOn(w, {"get_profile", "delete_account"}, IssuedAs("refresh")) =>
                requests[w].code = 401
          /\ AnsweredOn(w, {"refresh_tokens"}, IssuedAs("access")) =>
                requests[w].code = 401

\* a refresh token that is still valid, of a registered user, was presented to
\* get_current_user and refused
C27_Witness ==
    /\ AnsweredOn(1, {"get_profile"}, IssuedAs("refresh"))
    /\ ~InvalidOrExpired(requests[1].token[1])
    /\ requests[1].token[1].payload.sub \in users
    /\ requests[1].code = 401

\* an access token that is still valid was presented to the refresh route; and
\* an expired one is held
C27_WitnessRefresh ==
    /\ AnsweredOn(1, {"refresh_tokens"}, IssuedAs("access"))
    /\ ~InvalidOrExpired(requests[1].token[1])
    /\ requests[1].code = 401
    /\ \E token \in tokens : InvalidOrExpired(token)

(***************************************************************************)
(* C28.  Status and type agree: in every result of _determine_status, red  *)
(* comes with type street_cleaning, no_parking or no_standing, yellow with *)
(* meter or street_cleaning, green with free; the expiry is none in every  *)
(* prohibition result and in every green result that reports no            *)
(* restrictions.                                                           *)
(***************************************************************************)
NoRestrictions == result.status = "green" /\ result.reason = FreeParking.reason

C28_StatusTypeAgree ==
    (Returned /\ result.raised = "") =>
        /\ result.status = "red" =>
              result.parking_type \in {"street_cleaning", "no_parking", "no_standing"}
        /\ result.status = "yellow" => result.parking_type \in {"meter", "street_cleaning"}
        /\ result.status = "green" => result.parking_type = "free"
        /\ result.parking_type \in {"no_parking", "no_standing"} =>
              result.expires_at = None
        /\ NoRestrictions => result.expires_at = None

\* an advisory green: a cleaning window lies ahead, the type is free and the
\* expiry is set
C28_Witness ==
    /\ Returned
    /\ result.raised = ""
    /\ result.status = "green"
    /\ result.parking_type = "free"
    /\ result.expires_at # None
    /\ \E i \in Idx : StartsLater(rules[i])

\* green without restrictions although the list holds a finished cleaning window
C28_WitnessNoRestrictions ==
    /\ Returned
    /\ NoRestrictions
    /\ result.expires_at = None
    /\ \E i \in Idx : IsCleaning(rules[i]) /\ WellFormed(rules[i])

(***************************************************************************)
(* C29.  An expiry is never in the past: for every rule list whose windows *)
(* are well formed and whose max durations are positive, a result with an  *)
(* expiry has it strictly later than the query time, and a street-cleaning *)
(* result (red, yellow or advisory green) has it on the query's own        *)
(* calendar date.                                                          *)
(***************************************************************************)
AllWellFormed ==
    \A i \in Idx :
        /\ {"startTime", "endTime"} \subseteq DOMAIN rules[i] => WellFormed(rules[i])
        /\ IsMeter(rules[i]) /\ rules[i].maxDuration # None => rules[i].maxDuration[1] > 0

\* the instant in seconds from the start of the calendar
Seconds(dt) ==
    (((DateIndex(dt.date) - 1) * 24 + dt.hour) * 60 + dt.minute) * 60 + dt.second

\* the result is about street cleaning: an active or coming window, or the advisory
AboutCleaning ==
    \/ result.parking_type = "street_cleaning"
    \/ result.status = "green" /\ ~NoRestrictions

C29_ExpiryAhead ==
    (Returned /\ result.raised = "" /\ AllWellFormed /\ result.expires_at # None) =>
        /\ Seconds(result.expires_at[1]) > Seconds(now)
        /\ AboutCleaning => result.expires_at[1].date = now.date

(***************************************************************************)
(* C30.  A green reminder refers to a future cleaning: whenever a result   *)
(* is green and its recommendations hold "Remember: cleaning at T", T is   *)
(* the start of a matched street_cleaning window that begins later than    *)
(* the query time, and the result's reason and expires_at refer to the     *)
(* same start; a green result whose reason is "no restrictions" carries no *)
(* cleaning reminder.                                                      *)
(***************************************************************************)
Reminders ==
    {result.recommendations[i][2] :
        i \in {j \in 1..Len(result.recommendations) :
                  result.recommendations[j][1] = "Remember: cleaning at"}}

StartsAheadAt(T) ==
    \E i \in Idx : IsCleaning(rules[i]) /\ rules[i].startTime = T /\ StartsLater(rules[i])

C30_ReminderAhead ==
    (Answered /\ result.status = "green") =>
        /\ \A T \in Reminders :
              /\ StartsAheadAt(T)
              /\ result.reason = [msg |-> "OK for now - cleaning at", time |-> T]
              /\ result.expires_at # None
              /\ result.expires_at[1].date = now.date
        /\ NoRestrictions => Reminders = {}

====
